---- MODULE Spec2Model ----
(***************************************************************************)
(* Model of the network server of snake_game.py (class GameServer), of the *)
(* simulation it drives (class SnakeGameLogic) and of the world record     *)
(* (GameData).                                                             *)
(*                                                                         *)
(* Python dicts are insertion ordered and the code iterates them, so every *)
(* dict is a sequence of records keyed by the field k.  Handlers are       *)
(* operators from a server record s (clients, udp_clients, pending_inputs, *)
(* game, ev) to the server record after the handler; the actions at the    *)
(* end apply them to the variables.  Every random.* draw of the code is an *)
(* argument of the operator that makes it, chosen by the action.           *)
(*                                                                         *)
(* Time is an integer number of clock units, UnitsPerSecond to the second. *)
(***************************************************************************)
EXTENDS Integers, Sequences, FiniteSets, TLC

VARIABLES
    cfg,             \* GameServer constructor arguments and requires_password
    clients,         \* GameServer.clients
    udp_clients,     \* GameServer.udp_clients
    pending_inputs,  \* GameServer.pending_inputs
    game,            \* GameServer.game (a GameData)
    now,             \* time.time()
    draining,        \* the id whose buffer _read_clients is working through
                     \* after its entry was removed, else 0
    ev,              \* what the last step sent and closed, in order
    client_message_counts,  \* GameServer.client_message_counts
    passed,          \* history: the (id, time) of every message for which
                     \* _check_rate_limit returned True
    silent,          \* history: the scheduler ticks, up to TCP_EVERY, since
                     \* the last one that sent the snapshot to every joined
                     \* session over its reliable connection
    encoded,         \* history: the messages a peer gave to
                     \* NetworkProtocol.encode, in order
    inflight,        \* the bytes that peer has written and recv has not
                     \* returned yet
    buffer,          \* client['buffer'] of the connection of that peer
    handled,         \* history: the messages _read_clients passed to
                     \* _handle_message for that peer, in order
    accepted,        \* history: the (actor, action) of every input stored in
                     \* pending_inputs since the last tick, in order
    datagrams,       \* the snapshots sent to the UDP socket of a GameClient
                     \* that recvfrom has not returned yet
    stream,          \* the snapshots written to the TCP connection of that
                     \* client that it has not decoded yet, in order
    client_game      \* GameClient.game of that client

\* client_message_counts is followed in SpecRate.  The other specifications
\* leave it as it is and take either verdict of _check_rate_limit at every
\* message (ReadMessage, ReadRateLimited), which covers every content of it.
\* silent is followed in SpecDrop.  The bytes of one connection are followed
\* in SpecCodec and SpecWire; the other specifications take the messages as
\* decoded.  accepted is followed in SpecQueue, and the client of the
\* first peer in SpecClient.
codec == <<encoded, inflight, buffer, handled>>
clientside == <<datagrams, stream, client_game>>
rate == <<client_message_counts, passed, silent, codec, accepted, clientside>>

vars ==
    <<cfg, clients, udp_clients, pending_inputs, game, now, draining, ev,
      client_message_counts, passed, silent, encoded, inflight, buffer,
      handled, accepted, datagrams, stream, client_game>>

----------------------------------------------------------------------------
(* Program constants *)

MAX_PLAYERS == 10
BOMB_RANGE == 25
BOMB_DAMAGE == 4
BOMB_SPEED == 3
GHOST_DURATION == 5
WEAPON_SPAWN_MIN == 5
COUNTDOWN_SECONDS == 5
EXPLOSION_TTL == 5
TCP_EVERY == 3
MAX_CONNECTIONS == 50
MAX_MESSAGES_PER_SECOND == 30

VALID_ACTIONS == {"UP", "DOWN", "LEFT", "RIGHT", "FIRE", "GHOST"}
Directions == {"UP", "DOWN", "LEFT", "RIGHT"}

----------------------------------------------------------------------------
(* Bounds of the model *)

UnitsPerSecond == 2    \* clock resolution
MaxTick == 2           \* ticks of a running game that are explored
MaxJoins == 2          \* joins that reach _add_player_to_game in one world
MaxScenarioTick == 3   \* the same, for the simulation started mid-game

\* Ids: the peer addresses (ip, port) that ever connect
Ids == {1, 2}
MaxTime == (COUNTDOWN_SECONDS * UnitsPerSecond) + 1

\* random.randint / random.choice draws are restricted to these values
DrawStarts == {<<5, 5>>}
DrawFoods == {<<6, 5>>}
DrawDirs == {"RIGHT"}

----------------------------------------------------------------------------
(* dicts *)

Has(d, key) == \E i \in 1..Len(d) : d[i].k = key
Get(d, key) == d[CHOOSE i \in 1..Len(d) : d[i].k = key]
Put(d, r) ==
    IF Has(d, r.k)
    THEN [i \in 1..Len(d) |-> IF d[i].k = r.k THEN r ELSE d[i]]
    ELSE Append(d, r)
Del(d, key) == SelectSeq(d, LAMBDA r : r.k # key)
Keys(d) == {d[i].k : i \in 1..Len(d)}

RemoveAt(q, i) == [j \in 1..(Len(q) - 1) |-> IF j < i THEN q[j] ELSE q[j + 1]]
Front(q) == SubSeq(q, 1, Len(q) - 1)
Range(q) == {q[i] : i \in 1..Len(q)}

\* F applied to the value of v: one statement's result handed to the next
Then(v, F(_)) == CHOOSE y \in {F(x) : x \in {v}} : TRUE

Min(a, b) == IF a < b THEN a ELSE b
Max(a, b) == IF a > b THEN a ELSE b

----------------------------------------------------------------------------
(* GameData *)

GameData ==
    [state |-> "waiting", mode |-> "classic", speed |-> "normal",
     walls_enabled |-> TRUE, width |-> 80, height |-> 24,
     snakes |-> <<>>, foods |-> <<>>, weapons |-> <<>>, ghost_pickups |-> <<>>,
     bombs |-> <<>>, explosions |-> <<>>, next_player_id |-> 0, tick |-> 0,
     next_weapon_spawn |-> 0, winner |-> "", countdown |-> 0,
     countdown_start |-> 0]

\* GameClient.game before the first snapshot: None (line 1686)
NoGame == [state |-> "None", tick |-> 0]

----------------------------------------------------------------------------
(* SnakeGameLogic *)

is_position_occupied(g, c) ==
    \/ \E i \in 1..Len(g.snakes) : c \in Range(g.snakes[i].body)
    \/ c \in Range(g.foods)
    \/ c \in Range(g.weapons)
    \/ c \in Range(g.ghost_pickups)

\* random.randint(2, width - 2), random.randint(2, height - 2)
InSpawnRange(g, c) ==
    /\ 2 <= c[1] /\ c[1] <= g.width - 2
    /\ 2 <= c[2] /\ c[2] <= g.height - 2

\* The cell a spawn loop ends on: a drawn cell that is free is taken; a drawn
\* cell that is occupied stands for 100 occupied draws, and nothing is spawned.
SpawnCell(g, c) == InSpawnRange(g, c) /\ ~is_position_occupied(g, c)

spawn_food(g, c) ==
    IF SpawnCell(g, c) THEN [g EXCEPT !.foods = Append(@, c)] ELSE g

spawn_weapon(g, c) ==
    IF SpawnCell(g, c) THEN [g EXCEPT !.weapons = Append(@, c)] ELSE g

spawn_ghost(g, c) ==
    IF SpawnCell(g, c) THEN [g EXCEPT !.ghost_pickups = Append(@, c)] ELSE g

\* random.randint(5, width - 5) raises ValueError on an empty range
StartRangeEmpty(g) == g.width - 5 < 5 \/ g.height - 5 < 5

initial_body(c, d) ==
    CASE d = "RIGHT" -> <<c, <<c[1] - 1, c[2]>>, <<c[1] - 2, c[2]>> >>
      [] d = "LEFT"  -> <<c, <<c[1] + 1, c[2]>>, <<c[1] + 2, c[2]>> >>
      [] d = "DOWN"  -> <<c, <<c[1], c[2] - 1>>, <<c[1], c[2] - 2>> >>
      [] OTHER       -> <<c, <<c[1], c[2] + 1>>, <<c[1], c[2] + 2>> >>

\* start is the cell the 100-attempt loop ends on (a clear one, or the last
\* one tried), d the direction drawn, food the cell drawn by _spawn_food.
\* Called only when the start range is not empty.
add_player_to_game(g, pid, name, start, d, food) ==
    LET snake == [k |-> pid, player_id |-> g.next_player_id,
                  player_name |-> name, body |-> initial_body(start, d),
                  direction |-> d, alive |-> TRUE, has_weapon |-> FALSE,
                  has_ghost |-> FALSE, is_invisible |-> FALSE,
                  invisible_until |-> 0, score |-> 0]
        g1 == [g EXCEPT !.next_player_id = @ + 1, !.snakes = Put(@, snake)]
    IN  spawn_food(g1, food)

Step(c, d) ==
    CASE d = "UP"   -> <<c[1], c[2] - 1>>
      [] d = "DOWN" -> <<c[1], c[2] + 1>>
      [] d = "LEFT" -> <<c[1] - 1, c[2]>>
      [] OTHER      -> <<c[1] + 1, c[2]>>

Wrap(g, c) ==
    << IF c[1] <= 0 THEN g.width - 2
       ELSE IF c[1] >= g.width - 1 THEN 1 ELSE c[1],
       IF c[2] <= 0 THEN g.height - 2
       ELSE IF c[2] >= g.height - 1 THEN 1 ELSE c[2] >>

OutOfBounds(g, c) ==
    c[1] <= 0 \/ c[1] >= g.width - 1 \/ c[2] <= 0 \/ c[2] >= g.height - 1

\* list.remove(x): the first element equal to x
RemoveFirst(q, x) ==
    IF x \in Range(q)
    THEN RemoveAt(q, CHOOSE i \in 1..Len(q) :
                        q[i] = x /\ \A j \in 1..(i - 1) : q[j] # x)
    ELSE q

\* moved_body with the new head appended (append for the insert(0, ...) of
\* line 732) and the oldest cell dropped
moved_body_appended(g, body, new_head, ate_food) ==
    IF g.mode = "kurve" \/ ate_food
    THEN body \o <<new_head>>
    ELSE Tail(body \o <<new_head>>)

\* moved_body without the pop of line 775
moved_body_untrimmed(g, body, new_head, ate_food) ==
    <<new_head>> \o body

\* moved_body that pops the tail in either mode, and once more when no food
\* was eaten
moved_body_shrinking(g, body, new_head, ate_food) ==
    IF ate_food
    THEN Front(<<new_head>> \o body)
    ELSE Front(Front(<<new_head>> \o body))

\* The body after a move: the new head is inserted, and in classic mode the
\* tail is popped unless food was eaten.
moved_body(g, body, new_head, ate_food) ==
    IF g.mode = "kurve" \/ ate_food
    THEN <<new_head>> \o body
    ELSE Front(<<new_head>> \o body)

\* Moves snake number i; food is the cell _spawn_food draws if it eats.
move_snake(g, i, food) ==
    LET snake == g.snakes[i]
        stepped == Step(snake.body[1], snake.direction)
        new_head == IF g.walls_enabled THEN stepped ELSE Wrap(g, stepped)
        ate_food == new_head \in Range(g.foods)
        got_weapon == new_head \in Range(g.weapons)
        got_ghost == new_head \in Range(g.ghost_pickups)
        snake1 == [snake EXCEPT
                     !.body = moved_body(g, snake.body, new_head, ate_food),
                     !.score = IF ate_food THEN @ + 10 ELSE @,
                     !.has_weapon = IF got_weapon THEN TRUE ELSE @,
                     !.has_ghost = IF got_ghost THEN TRUE ELSE @]
        \* the head is inserted before the food is respawned (line 732, 746)
        g1 == [g EXCEPT !.snakes[i].body = <<new_head>> \o snake.body,
                        !.foods = RemoveFirst(@, new_head)]
        g2 == IF ate_food THEN spawn_food(g1, food) ELSE g1
    IN  [g2 EXCEPT !.snakes[i] = snake1,
                   !.weapons = RemoveFirst(@, new_head),
                   !.ghost_pickups = RemoveFirst(@, new_head)]

fire_weapon(g, i) ==
    LET snake == g.snakes[i]
        start == Step(snake.body[1], snake.direction)
        bomb == [x |-> start[1], y |-> start[2], direction |-> snake.direction,
                 owner_id |-> snake.player_id, remaining_range |-> BOMB_RANGE]
    IN  [g EXCEPT !.snakes[i].has_weapon = FALSE, !.bombs = Append(@, bomb)]

activate_ghost(g, i, current_time) ==
    [g EXCEPT !.snakes[i].has_ghost = FALSE,
              !.snakes[i].is_invisible = TRUE,
              !.snakes[i].invisible_until =
                  current_time + (GHOST_DURATION * UnitsPerSecond)]

create_explosion(g, x, y) ==
    [g EXCEPT !.explosions =
        Append(@, [x |-> x, y |-> y, radius |-> 3, ttl |-> EXPLOSION_TTL])]

\* Index of the first segment of body on cell c, 0 when there is none
\* (hit_index, 1-based here).
HitIndex(body, c) ==
    IF c \in Range(body)
    THEN CHOOSE j \in 1..Len(body) :
            body[j] = c /\ \A h \in 1..(j - 1) : body[h] # c
    ELSE 0

\* strike_body without the test of line 867 that one cell is left
RECURSIVE strike_body_through(_, _, _)
strike_body_through(body, hit, segments_removed) ==
    IF segments_removed < BOMB_DAMAGE /\ hit <= Len(body)
    THEN strike_body_through(RemoveAt(body, hit), hit, segments_removed + 1)
    ELSE body

\* The while loop of lines 866-869: pops at hit_index while fewer than
\* BOMB_DAMAGE were removed, the index is inside the body and more than one
\* cell is left.
RECURSIVE strike_body(_, _, _)
strike_body(body, hit, segments_removed) ==
    IF segments_removed < BOMB_DAMAGE /\ hit <= Len(body) /\ Len(body) > 1
    THEN strike_body(RemoveAt(body, hit), hit, segments_removed + 1)
    ELSE body

\* Lines 865-873: the struck snake after the strike.
bomb_strike(snake, hit) ==
    LET body == strike_body(snake.body, hit, 0)
    IN  [snake EXCEPT !.body = body,
                      !.alive = IF Len(body) < 2 THEN FALSE ELSE @]

\* Index of the first snake (dict order) with a segment on cell c, 0 if none.
FirstSnakeOn(g, c) ==
    IF \E i \in 1..Len(g.snakes) : c \in Range(g.snakes[i].body)
    THEN CHOOSE i \in 1..Len(g.snakes) :
            /\ c \in Range(g.snakes[i].body)
            /\ \A h \in 1..(i - 1) : c \notin Range(g.snakes[h].body)
    ELSE 0

\* bomb_advance with < for the <= of line 883
RECURSIVE bomb_advance_overrun(_, _, _)
bomb_advance_overrun(g, i, n) ==
    IF n = 0 THEN [g |-> g, remove |-> FALSE]
    ELSE
    LET b == g.bombs[i]
        stepped == Step(<<b.x, b.y>>, b.direction)
        hits_wall == g.walls_enabled /\ OutOfBounds(g, stepped)
        pos == IF g.walls_enabled THEN stepped ELSE Wrap(g, stepped)
        b1 == [b EXCEPT !.x = pos[1], !.y = pos[2],
                        !.remaining_range = @ - 1]
        g1 == [g EXCEPT !.bombs[i] = b1]
        si == FirstSnakeOn(g1, pos)
    IN  IF hits_wall
        THEN [g |-> create_explosion(g1, pos[1], pos[2]), remove |-> TRUE]
        ELSE IF si > 0
        THEN [g |-> [create_explosion(g1, pos[1], pos[2]) EXCEPT
                        !.snakes[si] =
                            bomb_strike(@, HitIndex(g1.snakes[si].body, pos))],
              remove |-> TRUE]
        ELSE IF b1.remaining_range < 0
        THEN [g |-> g1, remove |-> TRUE]
        ELSE Then(g1, LAMBDA g2 : bomb_advance_overrun(g2, i, n - 1))

\* The inner loop of _update_bombs for bomb number i with n cells of this
\* tick's speed left.  Returns the world and whether the bomb is to be removed.
RECURSIVE bomb_advance(_, _, _)
bomb_advance(g, i, n) ==
    IF n = 0 THEN [g |-> g, remove |-> FALSE]
    ELSE
    LET b == g.bombs[i]
        stepped == Step(<<b.x, b.y>>, b.direction)
        hits_wall == g.walls_enabled /\ OutOfBounds(g, stepped)
        pos == IF g.walls_enabled THEN stepped ELSE Wrap(g, stepped)
        b1 == [b EXCEPT !.x = pos[1], !.y = pos[2],
                        !.remaining_range = @ - 1]
        g1 == [g EXCEPT !.bombs[i] = b1]
        si == FirstSnakeOn(g1, pos)
    IN  IF hits_wall
        THEN [g |-> create_explosion(g1, pos[1], pos[2]), remove |-> TRUE]
        ELSE IF si > 0
        THEN [g |-> [create_explosion(g1, pos[1], pos[2]) EXCEPT
                        !.snakes[si] =
                            bomb_strike(@, HitIndex(g1.snakes[si].body, pos))],
              remove |-> TRUE]
        ELSE IF b1.remaining_range <= 0
        THEN [g |-> g1, remove |-> TRUE]
        ELSE Then(g1, LAMBDA g2 : bomb_advance(g2, i, n - 1))

\* The outer loop over the bombs from number i on; gone collects
\* bombs_to_remove.
RECURSIVE bombs_from(_, _, _)
bombs_from(g, i, gone) ==
    IF i > Len(g.bombs)
    THEN [g EXCEPT !.bombs =
            SelectSeq([j \in 1..Len(g.bombs) |-> [b |-> g.bombs[j], j |-> j]],
                      LAMBDA r : r.j \notin gone)]
    ELSE Then(bomb_advance(g, i, BOMB_SPEED), LAMBDA r :
            bombs_from(r.g, i + 1, IF r.remove THEN gone \cup {i} ELSE gone))

update_bombs(g) ==
    Then(bombs_from(g, 1, {}), LAMBDA r :
        [r EXCEPT !.bombs = [j \in 1..Len(r.bombs) |-> r.bombs[j].b]])

update_explosions(g) ==
    [g EXCEPT !.explosions =
        SelectSeq([j \in 1..Len(@) |-> [@[j] EXCEPT !.ttl = @ - 1]],
                  LAMBDA e : e.ttl > 0)]

\* Collides without the wall test of lines 924-928
Collides_unwalled(g, i) ==
    LET snake == g.snakes[i]
        head == snake.body[1]
    IN  \/ \E j \in 2..Len(snake.body) : snake.body[j] = head
        \/ \E o \in 1..Len(g.snakes) :
              /\ o # i
              /\ g.snakes[o].alive
              /\ ~g.snakes[o].is_invisible
              /\ head \in Range(g.snakes[o].body)

\* Collides without the test of lines 944-946 that the other is alive
Collides_dead(g, i) ==
    LET snake == g.snakes[i]
        head == snake.body[1]
    IN  \/ g.walls_enabled /\ OutOfBounds(g, head)
        \/ \E j \in 2..Len(snake.body) : snake.body[j] = head
        \/ \E o \in 1..Len(g.snakes) :
              /\ o # i
              /\ ~g.snakes[o].is_invisible
              /\ head \in Range(g.snakes[o].body)

\* Whether snake number i dies in _check_collisions, given the alive flags
\* the pass has set so far.
Collides(g, i) ==
    LET snake == g.snakes[i]
        head == snake.body[1]
    IN  \/ g.walls_enabled /\ OutOfBounds(g, head)
        \/ \E j \in 2..Len(snake.body) : snake.body[j] = head
        \/ \E o \in 1..Len(g.snakes) :
              /\ o # i
              /\ g.snakes[o].alive
              /\ ~g.snakes[o].is_invisible
              /\ head \in Range(g.snakes[o].body)

RECURSIVE collisions_from(_, _)
collisions_from(g, i) ==
    IF i > Len(g.snakes) THEN g
    ELSE IF g.snakes[i].alive /\ Collides(g, i)
    THEN Then([g EXCEPT !.snakes[i].alive = FALSE],
              LAMBDA g1 : collisions_from(g1, i + 1))
    ELSE collisions_from(g, i + 1)

check_collisions(g) == collisions_from(g, 1)

----------------------------------------------------------------------------
(* GameServer.  s is the server: clients, udp_clients, pending_inputs, game *)
(* and ev, the sends and closes made so far in the running step.           *)

\* A client's entry.  conn is the state of its socket: "open", or "reset" (the
\* peer has reset the connection: recv, send and getpeername raise
\* socket.error, which _read_clients passes over at line 1241).
NewClient(id) ==
    [k |-> id, name |-> "Unknown", joined |-> FALSE, authenticated |-> FALSE,
     conn |-> "open"]

\* addr of a connection: two ports of each peer IP
PeerIP(id) == (id + 1) \div 2
NoAddr == <<0, 0>>

Event(e, id, what, addr, snap) ==
    [e |-> e, id |-> id, what |-> what, addr |-> addr, snap |-> snap]

\* Whether sendall raises on the socket of pid
SendFails(s, pid) == Get(s.clients, pid).conn = "reset"

\* The server after _send_to_client(pid, msg); SendOk is its return value.
SendOk(s, pid) == Has(s.clients, pid) /\ ~SendFails(s, pid)
send_to_client(s, pid, what) ==
    IF SendOk(s, pid)
    THEN [s EXCEPT !.ev = Append(@, Event("tcp", pid, what, NoAddr,
                                          IF what = "state" THEN s.game.state
                                          ELSE ""))]
    ELSE s

remove_client(s, pid, graceful) ==
    LET s1 == IF Has(s.clients, pid)
              THEN [s EXCEPT
                      !.ev = Append(@, Event(IF graceful THEN "shutdown_close"
                                             ELSE "close", pid, "", NoAddr, "")),
                      !.clients = Del(@, pid)]
              ELSE s
        s2 == [s1 EXCEPT !.udp_clients = Del(@, pid)]
    IN  IF Has(s2.game.snakes, pid)
        THEN [s2 EXCEPT !.game.snakes =
                Put(@, [Get(s2.game.snakes, pid) EXCEPT !.alive = FALSE])]
        ELSE s2

\* The loop of lines 1600-1601 over the clients whose send failed
RECURSIVE remove_all(_, _)
remove_all(s, pids) ==
    IF pids = <<>> THEN s
    ELSE remove_all(remove_client(s, Head(pids), FALSE), Tail(pids))

\* The loop of lines 1594-1598 from client number i on; failed collects
\* disconnected.
RECURSIVE tcp_state_from(_, _, _)
tcp_state_from(s, i, failed) ==
    IF i > Len(s.clients) THEN remove_all(s, failed)
    ELSE LET c == s.clients[i]
         IN  IF ~c.joined THEN tcp_state_from(s, i + 1, failed)
             ELSE IF SendOk(s, c.k)
             THEN tcp_state_from(send_to_client(s, c.k, "state"), i + 1, failed)
             ELSE tcp_state_from(s, i + 1, Append(failed, c.k))

should_send_tcp(g) == (g.tick % TCP_EVERY = 0) \/ (g.state = "waiting")

broadcast_state(s) ==
    LET udp == [i \in 1..Len(s.udp_clients) |->
                  Event("udp", s.udp_clients[i].k, "state",
                        s.udp_clients[i].addr, s.game.state)]
        s1 == [s EXCEPT !.ev = @ \o udp]
    IN  IF should_send_tcp(s1.game) THEN tcp_state_from(s1, 1, <<>>) ELSE s1

\* start_countdown that skips the countdown
start_countdown_skipped(g, current_time) ==
    [g EXCEPT !.state = "running", !.countdown = 0,
              !.countdown_start = current_time]

start_countdown(g, current_time) ==
    [g EXCEPT !.state = "countdown", !.countdown = COUNTDOWN_SECONDS,
              !.countdown_start = current_time]

\* Line 1461 reads self.no_walls, an attribute GameServer never sets
\* (__init__, lines 1039-1078, sets walls_enabled): AttributeError, caught at
\* line 1237.  What has run by then is lines 1453-1460.
restart_game(s, mode) ==
    [s EXCEPT !.game = [GameData EXCEPT !.mode = mode]]

\* update_countdown with > for the >= of line 1489
update_countdown_late(g, current_time) ==
    LET elapsed == current_time - g.countdown_start
        new_countdown == COUNTDOWN_SECONDS - (elapsed \div UnitsPerSecond)
        g1 == IF new_countdown # g.countdown
              THEN [g EXCEPT !.countdown = Max(0, new_countdown)]
              ELSE g
    IN  IF elapsed > COUNTDOWN_SECONDS * UnitsPerSecond
        THEN [g1 EXCEPT !.state = "running", !.countdown = 0]
        ELSE g1

update_countdown(g, current_time) ==
    LET elapsed == current_time - g.countdown_start
        new_countdown == COUNTDOWN_SECONDS - (elapsed \div UnitsPerSecond)
        g1 == IF new_countdown # g.countdown
              THEN [g EXCEPT !.countdown = Max(0, new_countdown)]
              ELSE g
    IN  IF elapsed >= COUNTDOWN_SECONDS * UnitsPerSecond
        THEN [g1 EXCEPT !.state = "running", !.countdown = 0]
        ELSE g1

Opposite(d) ==
    CASE d = "UP" -> "DOWN" [] d = "DOWN" -> "UP"
      [] d = "LEFT" -> "RIGHT" [] OTHER -> "LEFT"

\* apply_input without the tests against the current direction of lines
\* 1513-1519
apply_input_unchecked(g, pid, action, current_time) ==
    IF ~Has(g.snakes, pid) THEN g
    ELSE
    LET i == CHOOSE j \in 1..Len(g.snakes) : g.snakes[j].k = pid
        snake == g.snakes[i]
    IN  IF ~snake.alive THEN g
        ELSE IF action \in Directions
        THEN [g EXCEPT !.snakes[i].direction = action]
        ELSE IF action = "FIRE" /\ snake.has_weapon THEN fire_weapon(g, i)
        ELSE IF action = "GHOST" /\ snake.has_ghost
        THEN activate_ghost(g, i, current_time)
        ELSE g

\* The body of the loop of _process_inputs for one (player_id, action)
apply_input(g, pid, action, current_time) ==
    IF ~Has(g.snakes, pid) THEN g
    ELSE
    LET i == CHOOSE j \in 1..Len(g.snakes) : g.snakes[j].k = pid
        snake == g.snakes[i]
    IN  IF ~snake.alive THEN g
        ELSE IF action \in Directions
        THEN IF snake.direction # Opposite(action)
             THEN [g EXCEPT !.snakes[i].direction = action]
             ELSE g
        ELSE IF action = "FIRE" /\ snake.has_weapon THEN fire_weapon(g, i)
        ELSE IF action = "GHOST" /\ snake.has_ghost
        THEN activate_ghost(g, i, current_time)
        ELSE g

RECURSIVE apply_inputs(_, _, _)
apply_inputs(g, inputs, current_time) ==
    IF inputs = <<>> THEN g
    ELSE Then(apply_input(g, Head(inputs).k, Head(inputs).action,
                          current_time),
              LAMBDA g1 : apply_inputs(g1, Tail(inputs), current_time))

\* process_inputs without the clear of line 1498
process_inputs_kept(s, current_time) ==
    [s EXCEPT !.game = apply_inputs(@, s.pending_inputs, current_time)]

process_inputs(s, current_time) ==
    [s EXCEPT !.pending_inputs = <<>>,
              !.game = apply_inputs(@, s.pending_inputs, current_time)]

RECURSIVE move_from(_, _, _)
move_from(g, i, food) ==
    IF i > Len(g.snakes) THEN g
    ELSE IF g.snakes[i].alive
    THEN Then(move_snake(g, i, food), LAMBDA g1 : move_from(g1, i + 1, food))
    ELSE move_from(g, i + 1, food)

\* check_winner with == 1 for the <= 1 of line 1559
check_winner_sole(g) ==
    LET alive == {i \in 1..Len(g.snakes) : g.snakes[i].alive}
    IN  IF Cardinality(alive) = 1 /\ Len(g.snakes) > 1
        THEN [g EXCEPT !.state = "finished",
                       !.winner = g.snakes[CHOOSE i \in alive : TRUE]
                                      .player_name]
        ELSE g

\* Lines 1557-1564
check_winner(g) ==
    LET alive == {i \in 1..Len(g.snakes) : g.snakes[i].alive}
    IN  IF Cardinality(alive) <= 1 /\ Len(g.snakes) > 1
        THEN [g EXCEPT !.state = "finished",
                       !.winner = IF alive = {} THEN @
                                  ELSE g.snakes[CHOOSE i \in alive : TRUE]
                                          .player_name]
        ELSE g

\* r holds the draws of the tick: r.food for _spawn_food, r.kind, r.cell and
\* r.delay for the pickup spawn.
\* Lines 1529-1532
end_invisibility(g, current_time) ==
    [g EXCEPT !.snakes =
        [i \in 1..Len(@) |->
            IF @[i].is_invisible /\ current_time >= @[i].invisible_until
            THEN [@[i] EXCEPT !.is_invisible = FALSE] ELSE @[i]]]

\* Lines 1549-1555
spawn_pickup(g, current_time, r) ==
    IF current_time >= g.next_weapon_spawn
    THEN [(IF r.kind = "bomb" THEN spawn_weapon(g, r.cell)
           ELSE spawn_ghost(g, r.cell))
          EXCEPT !.next_weapon_spawn = current_time + r.delay]
    ELSE g

\* update_game that checks the collisions before it moves the projectiles
update_game_collide_first(g, current_time, r) ==
    Then(end_invisibility(g, current_time), LAMBDA g1 :
    Then(move_from(g1, 1, r.food), LAMBDA g2 :
    Then(check_collisions(g2), LAMBDA g3 :
    Then(update_bombs(g3), LAMBDA g4 :
    Then(update_explosions(g4), LAMBDA g5 :
    Then(spawn_pickup(g5, current_time, r), LAMBDA g6 :
    Then(check_winner(g6), LAMBDA g7 :
        [g7 EXCEPT !.tick = @ + 1])))))))

update_game(g, current_time, r) ==
    Then(end_invisibility(g, current_time), LAMBDA g1 :
    Then(move_from(g1, 1, r.food), LAMBDA g2 :
    Then(update_bombs(g2), LAMBDA g3 :
    Then(update_explosions(g3), LAMBDA g4 :
    Then(check_collisions(g4), LAMBDA g5 :
    Then(spawn_pickup(g5, current_time, r), LAMBDA g6 :
    Then(check_winner(g6), LAMBDA g7 :
        [g7 EXCEPT !.tick = @ + 1])))))))

----------------------------------------------------------------------------
(* Messages.  A message is a record with every field; a field the client   *)
(* left out holds the default the code's msg.get gives it.                 *)
(* password: "match" (equal to the server's), "mismatch", "missing" (the   *)
(* default ''), "nonstring", "oversized" (a string of more than 50 chars). *)
(* name: "" stands for a name that sanitises to 'Player'.                  *)
(* player_id: 0 stands for a message without the field.                    *)

Msg(type, password, name, udp_port, screen, player_id, action) ==
    [type |-> type, password |-> password, name |-> name,
     udp_port |-> udp_port, screen |-> screen, player_id |-> player_id,
     action |-> action]

PasswordFormatBad(p) == p = "nonstring" \/ p = "oversized"
PasswordMatches(p) == p = "match"

ErrFormat == "error: Invalid password format"
ErrPassword == "error: Invalid password"
ErrStarted == "error: Game already started"
ErrFull == "error: Game is full"

\* Lines 1370-1381
ValidPort(p) == IF p < 0 \/ p > 65535 THEN 0 ELSE p
ValidDim(d) == IF d < 0 \/ d > 10000 THEN 0 ELSE d

\* Lines 1383-1399: the first player sets the field size
field_size(g, msg) ==
    LET cw == ValidDim(msg.screen[1])
        ch == ValidDim(msg.screen[2])
    IN  IF Len(g.snakes) = 0 /\ cw > 0 /\ ch > 0
        THEN IF cw <= 300
             THEN [g EXCEPT !.width = Min(cw - 2, 200),
                            !.height = Min(ch - 3, 50)]
             ELSE [g EXCEPT !.width = Min((Min(cw, 1920) \div 16) - 2, 118),
                            !.height = Min((Min(ch, 1080) \div 16) - 4, 63)]
        ELSE g

\* Lines 1358-1438: the join past the password, state and capacity checks.
\* r.start, r.dir and r.food are the draws of _add_player_to_game.
join_accepted(s, pid, msg, r) ==
    LET player_name == IF msg.name = "" THEN "Player" ELSE msg.name
        udp_port == ValidPort(msg.udp_port)
        g1 == field_size(s.game, msg)
    IN  IF StartRangeEmpty(g1)
        \* random.randint raises ValueError after next_player_id was advanced;
        \* the exception is caught at line 1237
        THEN [s EXCEPT !.game = [g1 EXCEPT !.next_player_id = @ + 1]]
        ELSE
        LET s1 == [s EXCEPT !.game = add_player_to_game(g1, pid, player_name,
                                                        r.start, r.dir, r.food)]
            s2 == IF Has(s1.clients, pid)
                  THEN [s1 EXCEPT !.clients =
                          Put(@, [Get(s1.clients, pid) EXCEPT
                                    !.name = player_name, !.joined = TRUE,
                                    !.authenticated = TRUE])]
                  ELSE s1
            \* self.clients[temp_id] raises KeyError for an unknown id and
            \* getpeername raises on a reset socket: both are caught
            s3 == IF udp_port > 0 /\ Has(s2.clients, pid)
                     /\ Get(s2.clients, pid).conn # "reset"
                  THEN [s2 EXCEPT !.udp_clients =
                          Put(@, [k |-> pid, addr |-> <<PeerIP(pid), udp_port>>])]
                  ELSE s2
        IN  broadcast_state(send_to_client(s3, pid, "welcome"))

\* handle_join with > for the >= of line 1351
handle_join_overfull(s, pid, msg, r) ==
    IF cfg.requires_password /\ PasswordFormatBad(msg.password)
    THEN remove_client(send_to_client(s, pid, ErrFormat), pid, TRUE)
    ELSE IF cfg.requires_password /\ ~PasswordMatches(msg.password)
    THEN remove_client(send_to_client(s, pid, ErrPassword), pid, TRUE)
    ELSE
    LET s1 == IF cfg.requires_password /\ Has(s.clients, pid)
              THEN [s EXCEPT !.clients =
                      Put(@, [Get(s.clients, pid) EXCEPT !.authenticated = TRUE])]
              ELSE s
    IN  IF s1.game.state # "waiting" THEN send_to_client(s1, pid, ErrStarted)
        ELSE IF Len(s1.game.snakes) > MAX_PLAYERS
        THEN send_to_client(s1, pid, ErrFull)
        ELSE join_accepted(s1, pid, msg, r)

\* handle_join without the _remove_client of lines 1327 and 1337
handle_join_kept(s, pid, msg, r) ==
    IF cfg.requires_password /\ PasswordFormatBad(msg.password)
    THEN send_to_client(s, pid, ErrFormat)
    ELSE IF cfg.requires_password /\ ~PasswordMatches(msg.password)
    THEN send_to_client(s, pid, ErrPassword)
    ELSE
    LET s1 == IF cfg.requires_password /\ Has(s.clients, pid)
              THEN [s EXCEPT !.clients =
                      Put(@, [Get(s.clients, pid) EXCEPT !.authenticated = TRUE])]
              ELSE s
    IN  IF s1.game.state # "waiting" THEN send_to_client(s1, pid, ErrStarted)
        ELSE IF Len(s1.game.snakes) >= MAX_PLAYERS
        THEN send_to_client(s1, pid, ErrFull)
        ELSE join_accepted(s1, pid, msg, r)

handle_join(s, pid, msg, r) ==
    IF cfg.requires_password /\ PasswordFormatBad(msg.password)
    THEN remove_client(send_to_client(s, pid, ErrFormat), pid, TRUE)
    ELSE IF cfg.requires_password /\ ~PasswordMatches(msg.password)
    THEN remove_client(send_to_client(s, pid, ErrPassword), pid, TRUE)
    ELSE
    LET s1 == IF cfg.requires_password /\ Has(s.clients, pid)
              THEN [s EXCEPT !.clients =
                      Put(@, [Get(s.clients, pid) EXCEPT !.authenticated = TRUE])]
              ELSE s
    IN  IF s1.game.state # "waiting" THEN send_to_client(s1, pid, ErrStarted)
        ELSE IF Len(s1.game.snakes) >= MAX_PLAYERS
        THEN send_to_client(s1, pid, ErrFull)
        ELSE join_accepted(s1, pid, msg, r)

\* Lines 1287-1306
handle_input(s, pid, msg) ==
    LET player_id == IF msg.player_id = 0 THEN pid ELSE msg.player_id
    IN  IF ~Has(s.clients, pid) THEN s
        ELSE IF cfg.requires_password /\ ~Get(s.clients, pid).authenticated
        THEN s
        ELSE IF msg.action \notin VALID_ACTIONS THEN s
        ELSE IF player_id # pid /\ ~Has(s.clients, player_id) THEN s
        ELSE IF Has(s.game.snakes, player_id)
        THEN [s EXCEPT !.pending_inputs =
                Put(@, [k |-> player_id, action |-> msg.action])]
        ELSE s

\* check_rate_limit with > for the >= of line 1266
check_rate_limit_lax(counts, client_id, current_time) ==
    LET old == IF Has(counts, client_id) THEN Get(counts, client_id).ts
               ELSE <<>>
        kept == SelectSeq(old, LAMBDA ts : current_time - ts < UnitsPerSecond)
        allowed == ~(Len(kept) > MAX_MESSAGES_PER_SECOND)
    IN  [allowed |-> allowed,
         counts |-> Put(counts, [k |-> client_id,
                                 ts |-> IF allowed
                                        THEN Append(kept, current_time)
                                        ELSE kept])]

\* _check_rate_limit, lines 1251-1271: its return value and
\* client_message_counts after it.  ts are the timestamps kept for the id.
check_rate_limit(counts, client_id, current_time) ==
    LET old == IF Has(counts, client_id) THEN Get(counts, client_id).ts
               ELSE <<>>
        kept == SelectSeq(old, LAMBDA ts : current_time - ts < UnitsPerSecond)
        allowed == ~(Len(kept) >= MAX_MESSAGES_PER_SECOND)
    IN  [allowed |-> allowed,
         counts |-> Put(counts, [k |-> client_id,
                                 ts |-> IF allowed
                                        THEN Append(kept, current_time)
                                        ELSE kept])]

\* _handle_message whose start does not look for an actor
handle_message_unguarded(s, pid, msg, allowed, current_time, r) ==
    IF ~allowed THEN s
    ELSE IF msg.type = "notstring" THEN s
    ELSE IF msg.type = "join" THEN handle_join(s, pid, msg, r)
    ELSE IF msg.type = "input" THEN handle_input(s, pid, msg)
    ELSE IF msg.type = "start"
    THEN IF s.game.state = "waiting"
         THEN [s EXCEPT !.game = start_countdown(@, current_time)]
         ELSE s
    ELSE IF msg.type = "restart"
    THEN IF s.game.state = "finished" THEN restart_game(s, cfg.mode) ELSE s
    ELSE s

\* allowed is what _check_rate_limit returns for the message
handle_message(s, pid, msg, allowed, current_time, r) ==
    IF ~allowed THEN s
    ELSE IF msg.type = "notstring" THEN s
    ELSE IF msg.type = "join" THEN handle_join(s, pid, msg, r)
    ELSE IF msg.type = "input" THEN handle_input(s, pid, msg)
    ELSE IF msg.type = "start"
    THEN IF s.game.state = "waiting" /\ Len(s.game.snakes) > 0
         THEN [s EXCEPT !.game = start_countdown(@, current_time)]
         ELSE s
    ELSE IF msg.type = "restart"
    THEN IF s.game.state = "finished" THEN restart_game(s, cfg.mode) ELSE s
    ELSE s

----------------------------------------------------------------------------
(* The server as a state machine *)

Cur ==
    [clients |-> clients, udp_clients |-> udp_clients,
     pending_inputs |-> pending_inputs, game |-> game, ev |-> <<>>]

Set(s) ==
    /\ clients' = s.clients
    /\ udp_clients' = s.udp_clients
    /\ pending_inputs' = s.pending_inputs
    /\ game' = s.game
    /\ ev' = s.ev

\* An id no connection ever has
UnknownId == Cardinality(Ids) + 1

NameOf(id) == IF id = 1 THEN "ann" ELSE IF id = 2 THEN "bob" ELSE "cat"

DrawDelays == {WEAPON_SPAWN_MIN * UnitsPerSecond}
NoDraw ==
    [start |-> <<5, 5>>, dir |-> "RIGHT", food |-> <<2, 2>>, kind |-> "bomb",
     cell |-> <<2, 2>>, delay |-> WEAPON_SPAWN_MIN * UnitsPerSecond]
JoinDraws ==
    {[NoDraw EXCEPT !.start = st, !.dir = d, !.food = f] :
        st \in DrawStarts, d \in DrawDirs, f \in DrawFoods}
TickDraws ==
    {[NoDraw EXCEPT !.food = f, !.kind = kd, !.cell = f, !.delay = dl] :
        f \in DrawFoods, kd \in {"bomb", "ghost"}, dl \in DrawDelays}

\* GameServer.__init__ and start(), lines 1039-1134, for the constructor
\* arguments of main (lines 3489-3498) and a host that is private or not
NewServer(c, dl) ==
    [clients |-> <<>>, udp_clients |-> <<>>, pending_inputs |-> <<>>,
     game |-> [GameData EXCEPT !.mode = c.mode, !.speed = c.speed,
                               !.walls_enabled = c.walls_enabled,
                               !.width = c.width, !.height = c.height,
                               !.next_weapon_spawn = dl],
     ev |-> <<>>]

\* The variables hold the server s when the clock reads current_time
Holds(s, current_time) ==
    /\ clients = s.clients
    /\ udp_clients = s.udp_clients
    /\ pending_inputs = s.pending_inputs
    /\ game = s.game
    /\ ev = <<>>
    /\ now = current_time
    /\ draining = 0
    /\ client_message_counts = <<>>
    /\ passed = <<>>
    /\ silent = 0
    /\ encoded = <<>>
    /\ inflight = <<>>
    /\ buffer = <<>>
    /\ handled = <<>>
    /\ accepted = <<>>
    /\ datagrams = {}
    /\ stream = <<>>
    /\ client_game = NoGame

Config(requires_password, mode, walls_enabled) ==
    [requires_password |-> requires_password, mode |-> mode,
     speed |-> "normal", walls_enabled |-> walls_enabled,
     width |-> 118, height |-> 63]

ServerStartedWith(c) ==
    /\ cfg = c
    /\ \E dl \in DrawDelays : Holds(NewServer(cfg, dl), 0)

ServerStarted(requires_password) ==
    ServerStartedWith(Config(requires_password, "classic", TRUE))

\* _accept_connections, lines 1172-1207.  A peer address is accepted again
\* once its connection is gone for the kernel: after the server removed the
\* entry, or after the peer reset it (the entry is then overwritten).
accept_connection(s, id) == [s EXCEPT !.clients = Put(@, NewClient(id))]

\* The error envelope and the close of lines 1185-1187
ServerFull(id) ==
    <<Event("tcp", id, "error: Server full", NoAddr, ""),
      Event("close", id, "", NoAddr, "")>>

\* accept_connections with > for the >= of line 1182
accept_connections_over(s, id) ==
    IF Len(s.clients) > MAX_CONNECTIONS
    THEN [s EXCEPT !.ev = @ \o ServerFull(id)]
    ELSE accept_connection(s, id)

\* Lines 1180-1205: the connection limit, then the entry
accept_connections(s, id) ==
    IF Len(s.clients) >= MAX_CONNECTIONS
    THEN [s EXCEPT !.ev = @ \o ServerFull(id)]
    ELSE accept_connection(s, id)

AcceptConnection(id) ==
    /\ draining = 0
    /\ IF Has(clients, id) THEN Get(clients, id).conn = "reset" ELSE TRUE
    /\ Set(accept_connections(Cur, id))
    /\ UNCHANGED <<cfg, now, draining, rate>>

\* Whether _read_clients decodes a message of id: its socket is readable, or
\* the loop of lines 1231-1239 is going on with the bytes left in the buffer
\* after the handler has removed the entry of id.
Reading(id) ==
    IF draining = 0
    THEN Has(clients, id) /\ Get(clients, id).conn = "open"
    ELSE draining = id

\* One turn of the loop of lines 1231-1239: msg is decoded and handled; r
\* holds the draws the handler makes.
ReadMessageDrawn(id, msg, r) ==
    /\ Reading(id)
    /\ LET s == handle_message(Cur, id, msg, TRUE, now, r)
       IN  /\ Set(s)
           /\ draining' = IF Has(s.clients, id) THEN 0 ELSE id
    /\ UNCHANGED <<cfg, now, rate>>

ReadMessage(id, msg) ==
    \E r \in (IF msg.type = "join" THEN JoinDraws ELSE {NoDraw}) :
        ReadMessageDrawn(id, msg, r)

\* Joins are explored while fewer than cap players were numbered in the world
JoinsLeft(msg, cap) == msg.type = "join" => game.next_player_id < cap

\* The same turn for a message _check_rate_limit refuses
ReadRateLimited(id, msg) ==
    /\ Reading(id)
    /\ Set(handle_message(Cur, id, msg, FALSE, now, NoDraw))
    /\ UNCHANGED <<cfg, now, draining, rate>>

\* The buffer of the removed entry holds no further complete message
EndRead ==
    /\ draining # 0
    /\ draining' = 0
    /\ ev' = <<>>
    /\ UNCHANGED <<cfg, clients, udp_clients, pending_inputs, game, now, rate>>

\* The peer closes its end and recv returns b'': lines 1218-1225, 1248-1249
ReadEOF(id) ==
    /\ draining = 0
    /\ Has(clients, id) /\ Get(clients, id).conn = "open"
    /\ Set(remove_client(Cur, id, FALSE))
    /\ UNCHANGED <<cfg, now, draining, rate>>

\* The peer resets the connection
PeerReset(id) ==
    /\ draining = 0
    /\ Has(clients, id) /\ Get(clients, id).conn = "open"
    /\ clients' = Put(clients, [Get(clients, id) EXCEPT !.conn = "reset"])
    /\ ev' = <<>>
    /\ UNCHANGED <<cfg, udp_clients, pending_inputs, game, now, draining, rate>>

\* Lines 1152-1162.  Every tick_rate of SPEED_SETTINGS is shorter than a
\* clock unit, so a tick is due at any reading of the clock.
tick(s, current_time, r) ==
    Then(process_inputs(s, current_time), LAMBDA s1 :
    Then(IF s1.game.state = "countdown"
         THEN [s1 EXCEPT !.game = update_countdown(@, current_time)]
         ELSE IF s1.game.state = "running"
         THEN [s1 EXCEPT !.game = update_game(@, current_time, r)]
         ELSE s1,
         LAMBDA s2 : broadcast_state(s2)))

TickDrawn(r) ==
    /\ draining = 0
    /\ Set(tick(Cur, now, r))
    /\ UNCHANGED <<cfg, now, draining, rate>>

TickUpTo(last) ==
    /\ game.state = "running" => game.tick < last
    /\ \E r \in (IF game.state = "running" THEN TickDraws ELSE {NoDraw}) :
          TickDrawn(r)

Tick == TickUpTo(MaxTick)

\* The clock is advanced while the countdown, the one interval measured in
\* the explored runs, is open.
AdvanceClock ==
    /\ draining = 0
    /\ game.state = "countdown"
    /\ now < MaxTime
    /\ now' = now + 1
    /\ ev' = <<>>
    /\ UNCHANGED <<cfg, clients, udp_clients, pending_inputs, game, draining,
                   rate>>

----------------------------------------------------------------------------
(* Spec: the server with players that join, play, leave and come back.     *)

GoodJoin(id) == Msg("join", "match", NameOf(id), 9000 + id, <<0, 0>>, 0, "")
BadJoin(id) == Msg("join", "mismatch", NameOf(id), 9000 + id, <<0, 0>>, 0, "")
Control(ty) == Msg(ty, "", "", 0, <<0, 0>>, 0, "")
Input(p, a) == Msg("input", "", "", 0, <<0, 0>>, p, a)

PlayerMsgs(id) ==
    {GoodJoin(id), BadJoin(id), Control("start"), Control("restart"),
     Input(0, "UP")}

Init == \E rp \in BOOLEAN : ServerStarted(rp)

Next ==
    \/ \E id \in Ids : AcceptConnection(id)
    \/ \E id \in Ids : \E msg \in PlayerMsgs(id) :
          JoinsLeft(msg, MaxJoins) /\ ReadMessage(id, msg)
    \/ \E id \in Ids : ReadRateLimited(id, Control("start"))
    \/ EndRead
    \/ \E id \in Ids : ReadEOF(id)
    \/ Tick
    \/ AdvanceClock

Spec == Init /\ [][Next]_vars

----------------------------------------------------------------------------
(* SpecGate: a server that requires a password, a player (address 1) and a *)
(* peer that sends whatever it likes (address 2).                          *)

Player == CHOOSE id \in Ids : \A o \in Ids : id <= o
Intruder == CHOOSE id \in Ids : \A o \in Ids : id >= o

IntruderMsgs ==
    {Msg("join", pw, NameOf(Intruder), p, <<0, 0>>, 0, "") :
        pw \in {"match", "mismatch", "missing", "nonstring", "oversized"},
        p \in {9000 + Intruder, 70000}}
    \cup {Input(p, a) : p \in {0, Player, UnknownId}, a \in {"LEFT", "JUMP"}}
    \cup {Control(ty) : ty \in {"start", "restart", "notstring", "ping"}}

GateInit == ServerStarted(TRUE)

GateNext ==
    \/ \E id \in {Player, Intruder} : AcceptConnection(id)
    \/ \E msg \in {GoodJoin(Player), Input(0, "UP")} :
          JoinsLeft(msg, MaxJoins) /\ ReadMessage(Player, msg)
    \/ \E msg \in IntruderMsgs :
          JoinsLeft(msg, MaxJoins) /\ ReadMessage(Intruder, msg)
    \/ ReadRateLimited(Intruder, Control("start"))
    \/ EndRead
    \/ ReadEOF(Intruder)
    \/ PeerReset(Intruder)
    \/ Tick
    \/ AdvanceClock

SpecGate == GateInit /\ [][GateNext]_vars

----------------------------------------------------------------------------
(* SpecCap: a server one join short of MAX_PLAYERS.  The first CapSeated   *)
(* addresses have connected and joined; the first of them has a 12x13      *)
(* terminal, which makes the field 10x10, so that every actor starts on    *)
(* <<5, 5>>, the one cell random.randint(5, 5) draws.  The other addresses *)
(* connect, join and leave; the game is started, played and restarted.     *)

CapSeated == (MAX_PLAYERS + 1) - Cardinality(Ids)
CapIds == 1..(MAX_PLAYERS + 1)
CapFree == CapIds \ (1..CapSeated)
CapJoinMsg(id) == Msg("join", "match", "cat", 9000 + id, <<12, 13>>, 0, "")

RECURSIVE CapJoined(_, _)
CapJoined(s, n) ==
    IF n = 0 THEN s
    ELSE LET s1 == accept_connection(CapJoined(s, n - 1), n)
             r == [NoDraw EXCEPT !.start = <<5, 5>>,
                                 !.food = <<2 + ((n - 1) % 7),
                                            2 + ((n - 1) \div 7)>>]
         IN  handle_message(s1, n, CapJoinMsg(n), TRUE, 0, r)

CapInit ==
    /\ \E rp \in BOOLEAN :
          cfg = [requires_password |-> rp, mode |-> "classic",
                 speed |-> "normal", walls_enabled |-> TRUE,
                 width |-> 118, height |-> 63]
    /\ \E dl \in DrawDelays : Holds(CapJoined(NewServer(cfg, dl), CapSeated), 0)

\* Joins are explored in the world of CapInit and, after a restart, while
\* fewer than MaxJoins players were numbered in the new world
CapJoinsLeft ==
    IF game.next_player_id >= CapSeated
    THEN game.next_player_id < MAX_PLAYERS + MaxJoins
    ELSE game.next_player_id < MaxJoins

CapNext ==
    \/ \E id \in CapFree : AcceptConnection(id)
    \/ \E id \in CapFree \cup {1} :
          CapJoinsLeft /\ ReadMessage(id, CapJoinMsg(id))
    \/ \E ty \in {"start", "restart"} : ReadMessage(1, Control(ty))
    \/ \E id \in CapFree : ReadEOF(id)
    \/ Tick
    \/ AdvanceClock

SpecCap == CapInit /\ [][CapNext]_vars

----------------------------------------------------------------------------
(* SpecSim: a game played from its start.  In the opening the draws are    *)
(* the ones that bring a projectile into play: player 1 joins heading      *)
(* RIGHT on row 10, player 2 heading UP on column 19 with food ahead; the  *)
(* game is started, the countdown runs out, and in three ticks player 2    *)
(* eats three times while a bomb is spawned on the way of player 1, who    *)
(* picks it up.  From there the players steer and fire for                 *)
(* MaxScenarioTick ticks.                                                  *)

SimStartTime == COUNTDOWN_SECONDS * UnitsPerSecond
SimDraw(food, cell) ==
    [NoDraw EXCEPT !.food = food, !.kind = "bomb", !.cell = cell]
SimJoinDraw(id) ==
    IF id = 1
    THEN [NoDraw EXCEPT !.start = <<10, 10>>, !.dir = "RIGHT",
                        !.food = <<19, 15>>]
    ELSE [NoDraw EXCEPT !.start = <<19, 16>>, !.dir = "UP", !.food = <<3, 3>>]
SimOpening ==
    << SimDraw(<<19, 14>>, <<12, 10>>), SimDraw(<<19, 13>>, <<4, 4>>),
       SimDraw(<<5, 3>>, <<4, 4>>) >>

SimInit ==
    \E m \in {"classic", "kurve"} : \E w \in BOOLEAN :
        ServerStartedWith(Config(FALSE, m, w))

SimNext ==
    \/ /\ Len(clients) = Len(game.snakes)
       /\ Len(clients) < Cardinality(Ids)
       /\ AcceptConnection(Len(clients) + 1)
    \/ /\ Len(clients) = Len(game.snakes) + 1
       /\ ReadMessageDrawn(Len(clients), GoodJoin(Len(clients)),
                           SimJoinDraw(Len(clients)))
    \/ /\ Len(game.snakes) = Cardinality(Ids)
       /\ game.state = "waiting"
       /\ ReadMessage(1, Control("start"))
    \/ now < SimStartTime /\ AdvanceClock
    \/ /\ game.state = "countdown"
       /\ now = SimStartTime
       /\ TickDrawn(NoDraw)
    \/ /\ game.state = "running"
       /\ game.tick < Len(SimOpening)
       /\ TickDrawn(SimOpening[game.tick + 1])
    \/ /\ game.state = "running"
       /\ game.tick >= Len(SimOpening)
       /\ \/ \E a \in {"FIRE", "UP"} : ReadMessage(1, Input(0, a))
          \/ \E a \in {"LEFT", "RIGHT"} : ReadMessage(2, Input(0, a))
          \/ TickUpTo(Len(SimOpening) + MaxScenarioTick)

SpecSim == SimInit /\ [][SimNext]_vars

----------------------------------------------------------------------------
(* Claims about the gate (SpecGate) *)

BadPasswords == {"mismatch", "missing", "nonstring", "oversized"}
ErrorReplies == {ErrFormat, ErrPassword}

\* The socket of id is readable and its entry is registered
Connected(id) ==
    draining = 0 /\ Has(clients, id) /\ Get(clients, id).conn = "open"

\* C1: on a server that requires a password, a join whose password is
\* missing, wrong, not a string or too long is answered by an error reply
\* first and then the close of the session, whose entry is removed from the
\* registry; no actor is added to the world.
C1_BadPasswordJoinRejected ==
    cfg.requires_password =>
    \A id \in Ids : \A pw \in BadPasswords :
        Connected(id) =>
        LET msg == Msg("join", pw, NameOf(id), 9000 + id, <<0, 0>>, 0, "")
            s == handle_message(Cur, id, msg, TRUE, now, NoDraw)
        IN  /\ Len(s.ev) = 2
            /\ s.ev[1].e = "tcp" /\ s.ev[1].id = id
            /\ s.ev[1].what \in ErrorReplies
            /\ s.ev[2].e = "shutdown_close" /\ s.ev[2].id = id
            /\ ~Has(s.clients, id)
            /\ ~Has(s.udp_clients, id)
            /\ Len(s.game.snakes) = Len(game.snakes)
            /\ Keys(s.game.snakes) = Keys(game.snakes)

\* A bad-password join of the intruder was answered and its session closed
C1_Witness ==
    /\ Len(ev) = 2
    /\ ev[1].e = "tcp" /\ ev[1].id = Intruder /\ ev[1].what = ErrPassword
    /\ ev[2].e = "shutdown_close" /\ ev[2].id = Intruder
    /\ ~Has(clients, Intruder)
    /\ ~Has(game.snakes, Intruder)

\* C2: an input message that names a player identity other than the one of
\* the sending connection is dropped: it queues no intent and changes no
\* actor.
C2_SpoofedInputDropped ==
    \A id \in Ids : \A p \in (Ids \cup {UnknownId}) \ {id} :
        \A a \in VALID_ACTIONS :
            Connected(id) =>
            LET s == handle_message(Cur, id, Input(p, a), TRUE, now, NoDraw)
            IN  s.pending_inputs = pending_inputs /\ s.game = game

\* C3: on a server that requires a password, no input, start, restart or
\* bad-password join of a session that has not authenticated changes the
\* lifecycle state, the actors or the pending inputs.
C3_UnauthenticatedChangesNothing ==
    cfg.requires_password =>
    \A id \in Ids :
        (Connected(id) /\ ~Get(clients, id).authenticated) =>
        \A msg \in {Control("start"), Control("restart"), Input(0, "UP"),
                    Input(Player, "UP"), BadJoin(id)} :
            LET s == handle_message(Cur, id, msg, TRUE, now, NoDraw)
            IN  /\ s.game.state = game.state
                /\ s.game.snakes = game.snakes
                /\ s.pending_inputs = pending_inputs

\* C4: every return address the broadcast loop sends to belongs to a
\* registered session that joined, and its IP is the IP of that session's
\* reliable connection.
C4_ReturnAddressesOfJoinedSessions ==
    \A i \in 1..Len(udp_clients) :
        LET u == udp_clients[i]
        IN  /\ Has(clients, u.k)
            /\ Get(clients, u.k).joined
            /\ u.addr[1] = PeerIP(u.k)

----------------------------------------------------------------------------
(* Claims about the lifecycle (Spec) *)

\* C5: after a restart request is handled while the world is Finished, the
\* world is reset, every connected session that had joined has a fresh
\* alive actor in the new world, and the pending-input queue is empty.
C5_RestartReadmitsEveryone ==
    [][(game.state = "finished" /\ game'.state # "finished") =>
        /\ game'.tick = 0
        /\ game'.winner = ""
        /\ \A i \in 1..Len(clients') :
              clients'[i].joined =>
                /\ Has(game'.snakes, clients'[i].k)
                /\ Get(game'.snakes, clients'[i].k).alive
        /\ pending_inputs' = <<>>]_vars

\* C6: the lifecycle state changes only along Waiting -> Countdown,
\* Countdown -> Running, Running -> Finished and Finished -> Waiting.
LifecycleEdges ==
    {<<"waiting", "countdown">>, <<"countdown", "running">>,
     <<"running", "finished">>, <<"finished", "waiting">>}

C6_LifecycleOrder ==
    [][game'.state # game.state =>
        <<game.state, game'.state>> \in LifecycleEdges]_vars

\* A world that went once round the cycle: waiting again after a countdown
C6_Witness ==
    game.state = "waiting" /\ now >= COUNTDOWN_SECONDS * UnitsPerSecond

\* C8: a start request moves the world to Countdown only when the world is
\* Waiting with at least one actor, a restart request is honored only when
\* the world is Finished, and in every other state they change nothing.
C8_StartRestartGuards ==
    \A id \in Ids :
        Connected(id) =>
        LET a == handle_message(Cur, id, Control("start"), TRUE, now, NoDraw)
            b == handle_message(Cur, id, Control("restart"), TRUE, now, NoDraw)
        IN  /\ IF game.state = "waiting" /\ Len(game.snakes) > 0
               THEN a.game.state = "countdown"
               ELSE a = Cur
            /\ IF game.state = "finished"
               THEN b.game.state = "waiting" /\ b.game.snakes = <<>>
               ELSE b = Cur

\* A start was honored: the countdown has just begun with an actor present
C8_Witness ==
    /\ game.state = "countdown"
    /\ game.countdown = COUNTDOWN_SECONDS
    /\ now = game.countdown_start
    /\ Len(game.snakes) > 0

\* C9: at every tick of the countdown the value becomes max(0, 5 - whole
\* seconds elapsed), it never increases, and the world enters Running at
\* the first tick at which 5 seconds have elapsed and at no earlier one.
C9_Countdown ==
    LET elapsed == now - game.countdown_start
        shown == Max(0, COUNTDOWN_SECONDS - (elapsed \div UnitsPerSecond))
        g == update_countdown(game, now)
    IN  /\ game.state = "countdown" =>
            /\ (g.state = "running") <=>
                    (elapsed >= COUNTDOWN_SECONDS * UnitsPerSecond)
            /\ g.state = "countdown" => g.countdown = shown
            /\ g.countdown <= game.countdown
            /\ game.countdown >= shown
            /\ game.countdown <= COUNTDOWN_SECONDS
        /\ (game.state = "running" /\ game.tick = 0) =>
            /\ elapsed >= COUNTDOWN_SECONDS * UnitsPerSecond
            /\ game.countdown = 0

\* The countdown has run out at a tick and the world is Running
C9_Witness ==
    /\ game.state = "running"
    /\ game.tick = 0
    /\ game.countdown = 0
    /\ now - game.countdown_start >= COUNTDOWN_SECONDS * UnitsPerSecond

----------------------------------------------------------------------------
(* Claims about the capacity (SpecCap) *)

\* C7: a join is accepted only while the world is Waiting and holds fewer
\* than 10 actors; the world never holds more than 10 actors; a join that
\* arrives in another state or at capacity adds no actor.
C7_JoinCapacity ==
    /\ Len(game.snakes) <= MAX_PLAYERS
    /\ \A id \in CapIds : \A r \in JoinDraws :
          Connected(id) =>
          LET s == handle_message(Cur, id, CapJoinMsg(id), TRUE, now, r)
              open == game.state = "waiting" /\ Len(game.snakes) < MAX_PLAYERS
          IN  /\ Len(s.game.snakes) <= MAX_PLAYERS
              /\ ~open =>
                    /\ s.game = game
                    /\ \E i \in 1..Len(s.ev) :
                          /\ s.ev[i].e = "tcp" /\ s.ev[i].id = id
                          /\ s.ev[i].what \in {ErrStarted, ErrFull}
              /\ s.game.snakes # game.snakes => open

\* The world is full and the join of one more session was refused
C7_Witness ==
    /\ Len(game.snakes) = MAX_PLAYERS
    /\ game.state = "waiting"
    /\ \E id \in CapFree :
          /\ ~Has(game.snakes, id)
          /\ ev = <<Event("tcp", id, ErrFull, NoAddr, "")>>

----------------------------------------------------------------------------
(* Claims about the simulation (SpecSim) *)

\* The cell ahead of the head body[1] of an actor heading d
Ahead(g, body, d) ==
    IF g.walls_enabled THEN Step(body[1], d) ELSE Wrap(g, Step(body[1], d))

\* A projectile went off on cell c in the tick that led to g
ExplodedOn(g, c) ==
    \E i \in 1..Len(g.explosions) :
        /\ g.explosions[i].x = c[1] /\ g.explosions[i].y = c[2]
        /\ g.explosions[i].ttl = EXPLOSION_TTL - 1

\* C10: after every tick of a running game, a tick in which projectiles
\* strike actors included, the body of every alive actor has at least one
\* cell, and its first cell is its head: the cell ahead of its former head,
\* unless a projectile went off on that very cell.
C10_AliveBodyHasHead ==
    [][(game.state = "running" /\ game'.tick = game.tick + 1) =>
        \A i \in 1..Len(game'.snakes) :
            game'.snakes[i].alive =>
                LET body == game'.snakes[i].body
                    ahead == Ahead(game, game.snakes[i].body,
                                   game'.snakes[i].direction)
                IN  /\ Len(body) >= 1
                    /\ body[1] = ahead \/ ExplodedOn(game', ahead)]_vars

\* An actor that a projectile has struck is alive with a body shorter than
\* the one it started with
C10_Witness ==
    /\ game.state = "running"
    /\ \E i \in 1..Len(game.snakes) :
          /\ game.snakes[i].alive
          /\ Len(game.snakes[i].body) = 2
    /\ \E j \in 1..Len(game.explosions) :
          game.explosions[j].ttl = EXPLOSION_TTL - 1

----------------------------------------------------------------------------
(* Claims about the actors (Spec) *)

\* C11: the alive flag of an actor only ever goes from true to false: no
\* tick, input, join, disconnect or reconnect makes a dead actor of the
\* current world alive again.
C11_DeadStaysDead ==
    [][\A id \in Ids :
        (Has(game.snakes, id) /\ ~Get(game.snakes, id).alive
            /\ Has(game'.snakes, id))
        => ~Get(game'.snakes, id).alive]_vars

----------------------------------------------------------------------------
(* Claims about body length (SpecSim) *)

\* The step is a tick of the running game
RunningTick == game.state = "running" /\ game'.tick = game.tick + 1

\* Actor number i is alive before and after the step
StaysAlive(i) == game.snakes[i].alive /\ game'.snakes[i].alive

\* Actor number i eats food in the step: only food adds to the score
Eats(i) == game'.snakes[i].score # game.snakes[i].score

\* A projectile goes off in the step on a cell of actor number i as moved
Struck(i) ==
    LET body == game.snakes[i].body
        ahead == Ahead(game, body, game'.snakes[i].direction)
    IN  \E c \in Range(<<ahead>> \o body) : ExplodedOn(game', c)

\* C12 as stated: in classic mode the body length of an alive actor is
\* unchanged across a tick in which it eats no food and exactly 1 larger
\* after a tick in which it eats food.
C12_ClassicLength ==
    [][(RunningTick /\ game.mode = "classic") =>
        \A i \in 1..Len(game.snakes) :
            StaysAlive(i) =>
                Len(game'.snakes[i].body) =
                    Len(game.snakes[i].body) + (IF Eats(i) THEN 1 ELSE 0)]_vars

\* C12 amended: in classic mode the body length of an alive actor that no
\* projectile strikes in the tick is unchanged across a tick in which it
\* eats no food and exactly 1 larger after a tick in which it eats food.
C12_ClassicLengthUnstruck ==
    [][(RunningTick /\ game.mode = "classic") =>
        \A i \in 1..Len(game.snakes) :
            (StaysAlive(i) /\ ~Struck(i)) =>
                Len(game'.snakes[i].body) =
                    Len(game.snakes[i].body) + (IF Eats(i) THEN 1 ELSE 0)]_vars

\* In classic mode an actor has eaten three times and is three cells longer
\* than at its start, and another has moved without eating
C12_Witness ==
    /\ game.mode = "classic"
    /\ game.state = "running"
    /\ \E i \in 1..Len(game.snakes) :
          /\ game.snakes[i].alive
          /\ game.snakes[i].score = 30
          /\ Len(game.snakes[i].body) = 6
    /\ \E i \in 1..Len(game.snakes) :
          /\ game.snakes[i].alive
          /\ game.snakes[i].score = 0
          /\ Len(game.snakes[i].body) = 3

\* C13 as stated: in kurve mode the body length of an actor never decreases
\* from one tick to the next while the actor is alive.
C13_KurveLength ==
    [][(RunningTick /\ game.mode = "kurve") =>
        \A i \in 1..Len(game.snakes) :
            StaysAlive(i) =>
                Len(game'.snakes[i].body) >= Len(game.snakes[i].body)]_vars

\* C13 amended: in kurve mode the body length of an alive actor does not
\* decrease across a tick in which no projectile strikes it.
C13_KurveLengthUnstruck ==
    [][(RunningTick /\ game.mode = "kurve") =>
        \A i \in 1..Len(game.snakes) :
            (StaysAlive(i) /\ ~Struck(i)) =>
                Len(game'.snakes[i].body) >= Len(game.snakes[i].body)]_vars

\* In kurve mode an alive actor has grown by one cell in every tick
C13_Witness ==
    /\ game.mode = "kurve"
    /\ game.state = "running"
    /\ game.tick > Len(SimOpening)
    /\ \E i \in 1..Len(game.snakes) :
          /\ game.snakes[i].alive
          /\ Len(game.snakes[i].body) = 3 + game.tick

----------------------------------------------------------------------------
(* Claims about the inputs (SpecSim) *)

\* C14: a heading change request equal to the reverse of the actor's
\* current heading is always rejected: once the request is received and the
\* inputs are processed, the actor has its prior heading.
C14_ReverseRejected ==
    \A id \in Ids :
        (Connected(id) /\ Has(game.snakes, id)) =>
        LET d == Get(game.snakes, id).direction
            s == process_inputs(
                    handle_message(Cur, id, Input(0, Opposite(d)), TRUE, now,
                                   NoDraw), now)
        IN  /\ Get(s.game.snakes, id).direction = d
            /\ s.pending_inputs = <<>>

\* The reverse of the heading an alive actor took at an earlier tick is
\* queued as its request
C14_Witness ==
    /\ game.state = "running"
    /\ \E i \in 1..Len(pending_inputs) :
          LET p == pending_inputs[i]
          IN  /\ Has(game.snakes, p.k)
              /\ Get(game.snakes, p.k).alive
              /\ Get(game.snakes, p.k).direction = "LEFT"
              /\ p.action = "RIGHT"

----------------------------------------------------------------------------
(* SpecFlight: the game of SpecSim played on for as long as a projectile   *)
(* flies.  After the opening player 1, who holds the bomb, turns up and    *)
(* fires when it likes; player 2 keeps its heading.                        *)

MaxFlightTick == 10    \* ticks explored after the opening

FlightNext ==
    \/ /\ Len(clients) = Len(game.snakes)
       /\ Len(clients) < Cardinality(Ids)
       /\ AcceptConnection(Len(clients) + 1)
    \/ /\ Len(clients) = Len(game.snakes) + 1
       /\ ReadMessageDrawn(Len(clients), GoodJoin(Len(clients)),
                           SimJoinDraw(Len(clients)))
    \/ /\ Len(game.snakes) = Cardinality(Ids)
       /\ game.state = "waiting"
       /\ ReadMessage(1, Control("start"))
    \/ now < SimStartTime /\ AdvanceClock
    \/ /\ game.state = "countdown"
       /\ now = SimStartTime
       /\ TickDrawn(NoDraw)
    \/ /\ game.state = "running"
       /\ game.tick < Len(SimOpening)
       /\ TickDrawn(SimOpening[game.tick + 1])
    \/ /\ game.state = "running"
       /\ game.tick >= Len(SimOpening)
       /\ \/ \E a \in {"FIRE", "UP"} : ReadMessage(1, Input(0, a))
          \/ TickUpTo(Len(SimOpening) + MaxFlightTick)

SpecFlight == SimInit /\ [][FlightNext]_vars

----------------------------------------------------------------------------
(* Claims about the projectiles (SpecFlight) *)

\* The world _update_bombs is called on in a tick of the running game that
\* starts now: the inputs are processed and the actors have moved
BeforeBombs ==
    move_from(end_invisibility(process_inputs(Cur, now).game, now), 1,
              NoDraw.food)

\* The cell n cells further from c in direction d
RECURSIVE Walk(_, _, _, _)
Walk(g, c, d, n) ==
    IF n = 0 THEN c
    ELSE Walk(g, IF g.walls_enabled THEN Step(c, d) ELSE Wrap(g, Step(c, d)),
              d, n - 1)

\* C15: a projectile is fired with a budget of 25 cells; in a tick it
\* advances at most 3 cells, one cell of budget each, with walls or with
\* wrap-around; its budget is never overdrawn, and a projectile whose
\* budget has reached zero is not in the world after the tick.
C15_ProjectileBudget ==
    /\ \A j \in 1..Len(game.bombs) :
          game.bombs[j].remaining_range \in 1..BOMB_RANGE
    /\ game.state = "running" =>
          \A g \in {BeforeBombs} :
             /\ \A j \in (Len(game.bombs) + 1)..Len(g.bombs) :
                   g.bombs[j].remaining_range = BOMB_RANGE
             /\ \A j \in 1..Len(g.bombs) :
                   \A r \in {bomb_advance(g, j, BOMB_SPEED)} :
                      LET b == g.bombs[j]
                          a == r.g.bombs[j]
                          cells == b.remaining_range - a.remaining_range
                      IN  /\ cells \in 0..BOMB_SPEED
                          /\ <<a.x, a.y>> =
                                Walk(g, <<b.x, b.y>>, b.direction, cells)
                          /\ a.remaining_range >= 0
                          /\ a.remaining_range = 0 => r.remove
             /\ \A h \in {update_bombs(g)} :
                   \A j \in 1..Len(h.bombs) : h.bombs[j].remaining_range >= 1

\* A projectile fired upwards has wrapped round the field and has one cell
\* of its budget left
C15_Witness ==
    /\ game.state = "running"
    /\ ~game.walls_enabled
    /\ \E j \in 1..Len(game.bombs) :
          /\ game.bombs[j].direction = "UP"
          /\ game.bombs[j].remaining_range = 1

----------------------------------------------------------------------------
(* SpecArena: a game on a small field.  The first player has a 22x18       *)
(* terminal, which makes the field 20x15.  Player 1 starts on <<9, 5>>     *)
(* heading RIGHT and player 2 on <<13, 5>> heading UP, so that player 1    *)
(* crosses the column of player 2 in the fourth tick and player 2 reaches  *)
(* the upper wall in the fifth.  The first tick spawns a ghost pickup on   *)
(* the way of one of them; both activate it and turn when they like, and   *)
(* the connection of player 2 may be reset.                                *)

MaxArenaTick == 6      \* ticks of the running game that are explored

ArenaJoinMsg(id) == Msg("join", "match", NameOf(id), 9000 + id, <<22, 18>>, 0, "")
ArenaJoinDraw(id) ==
    IF id = 1
    THEN [NoDraw EXCEPT !.start = <<9, 5>>, !.dir = "RIGHT", !.food = <<3, 12>>]
    ELSE [NoDraw EXCEPT !.start = <<13, 5>>, !.dir = "UP", !.food = <<4, 12>>]
ArenaDraws ==
    {[NoDraw EXCEPT !.food = <<5, 12>>, !.kind = "ghost", !.cell = c] :
        c \in {<<11, 5>>, <<13, 3>>}}

ArenaNext ==
    \/ /\ Len(clients) = Len(game.snakes)
       /\ Len(clients) < Cardinality(Ids)
       /\ AcceptConnection(Len(clients) + 1)
    \/ /\ Len(clients) = Len(game.snakes) + 1
       /\ ReadMessageDrawn(Len(clients), ArenaJoinMsg(Len(clients)),
                           ArenaJoinDraw(Len(clients)))
    \/ /\ Len(game.snakes) = Cardinality(Ids)
       /\ game.state = "waiting"
       /\ ReadMessage(1, Control("start"))
    \/ now < SimStartTime /\ AdvanceClock
    \/ /\ game.state = "countdown"
       /\ now = SimStartTime
       /\ TickDrawn(NoDraw)
    \/ /\ game.state = "running"
       /\ \/ \E a \in {"GHOST", "DOWN"} : ReadMessage(1, Input(0, a))
          \/ \E a \in {"GHOST", "LEFT"} : ReadMessage(2, Input(0, a))
          \/ PeerReset(2)
          \/ /\ game.tick < MaxArenaTick
             /\ \E r \in ArenaDraws : TickDrawn(r)

SpecArena == SimInit /\ [][ArenaNext]_vars

----------------------------------------------------------------------------
(* Claims about the collisions (SpecArena) *)

\* The world _check_collisions is called on in a tick of the running game
\* that starts now
BeforeCollisions == update_explosions(update_bombs(BeforeBombs))

\* Actor number i of g dies of its own in _check_collisions: wall or self
OwnCollision(g, i) ==
    LET body == g.snakes[i].body
    IN  \/ g.walls_enabled /\ OutOfBounds(g, body[1])
        \/ \E j \in 2..Len(body) : body[j] = body[1]

\* The head of actor number i of g is on a cell of actor number o
HeadOn(g, i, o) == g.snakes[i].body[1] \in Range(g.snakes[o].body)

\* C16: when the head of an alive actor is on a cell of another alive actor
\* and one of the two is cloaked, collision resolution does not kill the
\* actor because of the other: it stays alive unless it hit the wall,
\* itself or a third actor.
C16_CloakedNeverCollides ==
    game.state = "running" =>
    \A g \in {BeforeCollisions} : \A h \in {check_collisions(g)} :
        \A i \in 1..Len(g.snakes) : \A o \in 1..Len(g.snakes) :
            ( /\ i # o
              /\ g.snakes[i].alive /\ g.snakes[o].alive
              /\ g.snakes[i].is_invisible \/ g.snakes[o].is_invisible
              /\ HeadOn(g, i, o)
              /\ ~OwnCollision(g, i)
              /\ \A t \in 1..Len(g.snakes) : t \in {i, o} \/ ~HeadOn(g, i, t) )
            => h.snakes[i].alive

\* C17: with walls enabled, an alive actor whose head lands outside
\* [1, width-2] x [1, height-2] in a tick is marked dead in that tick, and
\* every actor that is alive has its head inside that rectangle.
C17_WallKills ==
    [][(RunningTick /\ game.walls_enabled) =>
        \A i \in 1..Len(game.snakes) :
            game.snakes[i].alive =>
                /\ OutOfBounds(game, Ahead(game, game.snakes[i].body,
                                           game'.snakes[i].direction))
                      => ~game'.snakes[i].alive
                /\ game'.snakes[i].alive
                      => ~OutOfBounds(game', game'.snakes[i].body[1])
                /\ ~OutOfBounds(game, game.snakes[i].body[1])]_vars

\* An actor went into the wall and is dead with its head outside
C17_Witness ==
    /\ game.walls_enabled
    /\ game.tick = 5
    /\ \E i \in 1..Len(game.snakes) :
          /\ ~game.snakes[i].alive
          /\ OutOfBounds(game, game.snakes[i].body[1])
          /\ ~OutOfBounds(game, game.snakes[i].body[2])

----------------------------------------------------------------------------
(* Claims about the end of the game (SpecArena) *)

\* The actors of g that are alive
AliveIn(g) == {i \in 1..Len(g.snakes) : g.snakes[i].alive}

\* C18: in a running world with more than one actor, the step in which the
\* second-to-last alive actor dies makes the world Finished, with winner
\* the name of the sole surviving actor, and the winner of before when no
\* actor survives.
C18_FinishedWhenOneLeft ==
    [][( /\ game.state = "running"
         /\ Len(game.snakes) > 1
         /\ Cardinality(AliveIn(game)) > 1
         /\ Len(game'.snakes) = Len(game.snakes)
         /\ Cardinality(AliveIn(game')) <= 1 )
       => /\ game'.state = "finished"
          /\ \A i \in AliveIn(game') :
                game'.winner = game'.snakes[i].player_name
          /\ AliveIn(game') = {} => game'.winner = game.winner]_vars

----------------------------------------------------------------------------
(* SpecRate: one session whose messages go through _check_rate_limit, for  *)
(* a little over a second of the clock.  The client joins, steers and asks *)
(* for the start as often and as fast as it likes.                         *)

MaxRateTime == UnitsPerSecond

RateMsgs == {GoodJoin(Player), Input(0, "UP"), Control("start")}

\* One turn of the loop of lines 1231-1239 with the rate limiter of
\* _handle_message, lines 1275-1278
ReadLimited(id, msg) ==
    /\ Reading(id)
    /\ LET v == check_rate_limit(client_message_counts, id, now)
           s == handle_message(Cur, id, msg, v.allowed, now, NoDraw)
       IN  /\ Set(s)
           /\ draining' = IF Has(s.clients, id) THEN 0 ELSE id
           /\ client_message_counts' = v.counts
           /\ passed' = IF v.allowed
                        THEN Append(passed, [k |-> id, t |-> now])
                        ELSE passed
    /\ UNCHANGED <<cfg, now, silent, codec, accepted, clientside>>

\* The clock of the rate limiter's second
RateClock ==
    /\ draining = 0
    /\ now < MaxRateTime
    /\ now' = now + 1
    /\ ev' = <<>>
    /\ UNCHANGED <<cfg, clients, udp_clients, pending_inputs, game, draining,
                   rate>>

RateInit == ServerStarted(FALSE)

RateNext ==
    \/ ~Has(clients, Player) /\ AcceptConnection(Player)
    \/ \E msg \in RateMsgs :
          /\ msg.type = "join" => Len(game.snakes) = 0
          /\ ReadLimited(Player, msg)
    \/ RateClock

SpecRate == RateInit /\ [][RateNext]_vars

----------------------------------------------------------------------------
(* Claims about the rate limiter (SpecRate) *)

\* The messages of id that passed the limiter in the second that ends at
\* time last
PassedInSecond(id, last) ==
    {i \in 1..Len(passed) :
        /\ passed[i].k = id
        /\ passed[i].t <= last
        /\ last - passed[i].t < UnitsPerSecond}

\* C19: of every session at most 30 messages pass the rate limiter in any
\* one-second window, and a message over the limit is dropped: it changes
\* neither the world nor the pending inputs, sends nothing and leaves the
\* session registered.
C19_RateLimit ==
    /\ \A id \in Ids : \A last \in 0..now :
          Cardinality(PassedInSecond(id, last)) <= MAX_MESSAGES_PER_SECOND
    /\ \A id \in Ids : \A msg \in RateMsgs :
          Connected(id) =>
          LET v == check_rate_limit(client_message_counts, id, now)
              s == handle_message(Cur, id, msg, v.allowed, now, NoDraw)
          IN  /\ v.allowed <=>
                    Cardinality(PassedInSecond(id, now))
                        < MAX_MESSAGES_PER_SECOND
              /\ ~v.allowed => s = Cur

\* Thirty messages of the session have passed in the running second and
\* its next start request would be dropped in a world it would start
C19_Witness ==
    /\ Cardinality(PassedInSecond(Player, now)) = MAX_MESSAGES_PER_SECOND
    /\ now > 0
    /\ Connected(Player)
    /\ game.state = "waiting"
    /\ Len(game.snakes) > 0

----------------------------------------------------------------------------
(* SpecFull: a server that requires a password, two connections short of   *)
(* MAX_CONNECTIONS.  The first FullSeated addresses are connected; the     *)
(* others connect, are turned away at the password, leave, are reset and   *)
(* connect again.                                                          *)

FullSeated == MAX_CONNECTIONS - Cardinality(Ids)
FullIds == 1..(MAX_CONNECTIONS + Cardinality(Ids))
FullFree == FullIds \ (1..FullSeated)

FullInit ==
    /\ cfg = Config(TRUE, "classic", TRUE)
    /\ \E dl \in DrawDelays :
          Holds([NewServer(cfg, dl) EXCEPT
                    !.clients = [i \in 1..FullSeated |-> NewClient(i)]], 0)

FullNext ==
    \/ \E id \in FullFree : AcceptConnection(id)
    \/ \E id \in FullFree : ReadMessage(id, BadJoin(id))
    \/ EndRead
    \/ \E id \in FullFree : ReadEOF(id)
    \/ \E id \in FullFree : PeerReset(id)

SpecFull == FullInit /\ [][FullNext]_vars

----------------------------------------------------------------------------
(* Claims about the connection limit (SpecFull) *)

\* C20: the registry never holds more than 50 connections; a connection
\* accepted while it holds 50 is sent an error envelope and closed at once,
\* and gets no entry: the registry and the world are as before.
C20_ConnectionCeiling ==
    /\ Len(clients) <= MAX_CONNECTIONS
    /\ \A id \in FullIds :
          (draining = 0 /\ (Has(clients, id) =>
                                Get(clients, id).conn = "reset")) =>
          LET s == accept_connections(Cur, id)
          IN  /\ Len(s.clients) <= MAX_CONNECTIONS
              /\ Len(clients) >= MAX_CONNECTIONS =>
                    /\ s.ev = ServerFull(id)
                    /\ s = [Cur EXCEPT !.ev = s.ev]

\* The registry is full and one more connection has just been refused
C20_Witness ==
    /\ Len(clients) = MAX_CONNECTIONS
    /\ \E id \in FullFree : ~Has(clients, id) /\ ev = ServerFull(id)

----------------------------------------------------------------------------
(* SpecDrop: sessions that end.  Two peers connect, join and start the     *)
(* game; a peer closes its end (recv returns b''), or resets the           *)
(* connection, after which recv and sendall raise socket.error.            *)

\* Lines 1218-1225 and 1248-1249: recv returned b'', id is appended to
\* disconnected and removed after the loop
read_clients_eof(s, id) == remove_client(s, id, FALSE)

\* Lines 1217 and 1241-1242: recv raised socket.error (ConnectionResetError
\* is an OSError), the handler passes and id is not appended to disconnected
read_clients_error(s, id) == s

\* _read_clients meets the error of a reset socket
ReadSocketError(id) ==
    /\ draining = 0
    /\ Has(clients, id) /\ Get(clients, id).conn = "reset"
    /\ Set(read_clients_error(Cur, id))
    /\ UNCHANGED <<cfg, now, draining, rate>>

\* Whether the tick that took the server from s to t sent the snapshot over
\* the reliable connection of every joined session it could write to
Resent(s, t) ==
    \A i \in 1..Len(s.clients) :
        s.clients[i].joined /\ ~SendFails(s, s.clients[i].k)
            => \E j \in 1..Len(t.ev) :
                  t.ev[j] = Event("tcp", s.clients[i].k, "state", NoAddr,
                                  t.game.state)

\* A tick of the scheduler, lines 1152-1162, with the count of the ticks
\* that made no reliable re-send
SchedulerTick ==
    /\ draining = 0
    /\ game.state = "running" => game.tick < MaxTick
    /\ \E r \in (IF game.state = "running" THEN TickDraws ELSE {NoDraw}) :
          \A t \in {tick(Cur, now, r)} :
              /\ Set(t)
              /\ silent' = IF Resent(Cur, t) THEN 0
                           ELSE Min(silent + 1, TCP_EVERY)
    /\ UNCHANGED <<cfg, now, draining, client_message_counts, passed, codec,
                   accepted, clientside>>

DropInit == ServerStarted(FALSE)

DropNext ==
    \/ \E id \in Ids : AcceptConnection(id)
    \/ \E id \in Ids :
          /\ JoinsLeft(GoodJoin(id), MaxJoins)
          /\ ReadMessageDrawn(id, GoodJoin(id), SimJoinDraw(id))
    \/ \E id \in Ids : ReadMessage(id, Control("start"))
    \/ \E id \in Ids : ReadEOF(id)
    \/ \E id \in Ids : PeerReset(id)
    \/ \E id \in Ids : ReadSocketError(id)
    \/ SchedulerTick
    \/ AdvanceClock

SpecDrop == DropInit /\ [][DropNext]_vars

----------------------------------------------------------------------------
(* Claims about the end of a session (SpecDrop) *)

\* The sessions of s other than id whose own send does not fail
Others(s, id) ==
    {o \in Keys(s.clients) : o # id /\ ~(Get(s.clients, o).joined /\ SendFails(s, o))}

\* The server t is the server s with the session of id removed: entry and
\* return address gone, the actor dead with the body it had, every other
\* session and actor and the lifecycle state as they were
RemovedFrom(s, t, id) ==
    /\ ~Has(t.clients, id)
    /\ ~Has(t.udp_clients, id)
    /\ Has(s.game.snakes, id) =>
          /\ Has(t.game.snakes, id)
          /\ ~Get(t.game.snakes, id).alive
          /\ Get(t.game.snakes, id).body = Get(s.game.snakes, id).body
    /\ \A o \in Others(s, id) :
          /\ Has(t.clients, o) /\ Get(t.clients, o) = Get(s.clients, o)
          /\ Has(t.udp_clients, o) = Has(s.udp_clients, o)
          /\ Has(s.udp_clients, o) =>
                Get(t.udp_clients, o) = Get(s.udp_clients, o)
    /\ Len(t.game.snakes) = Len(s.game.snakes)
    /\ \A i \in 1..Len(s.game.snakes) :
          s.game.snakes[i].k \in Others(s, id) \/ ~Has(s.clients, s.game.snakes[i].k)
             => t.game.snakes[i] = s.game.snakes[i]
    /\ t.game.state = s.game.state

\* The write to id fails in the broadcast of lines 1589-1601
WriteFails(s, id) ==
    /\ Has(s.clients, id) /\ Get(s.clients, id).joined /\ SendFails(s, id)
    /\ should_send_tcp(s.game)

\* C21: removing a session (EOF, socket error or write failure) deletes its
\* registry entry and its return address and marks its actor dead while
\* keeping the actor's body in the world; every other session, every other
\* actor and the lifecycle state are left unchanged.
C21_SessionRemoved ==
    \A id \in Keys(clients) :
        /\ Get(clients, id).conn = "open"
              => RemovedFrom(Cur, read_clients_eof(Cur, id), id)
        /\ Get(clients, id).conn = "reset"
              => RemovedFrom(Cur, read_clients_error(Cur, id), id)
        /\ WriteFails(Cur, id)
              => RemovedFrom(Cur, broadcast_state(Cur), id)

----------------------------------------------------------------------------
(* Claims about the broadcast (SpecDrop) *)

\* The sends of the tick that takes the server from s to t follow the
\* policy: the snapshot goes to every return address, and in Waiting to
\* every joined session over its reliable connection
SendsOf(s, t) ==
    /\ \A i \in 1..Len(s.udp_clients) :
          \E j \in 1..Len(t.ev) :
              t.ev[j] = Event("udp", s.udp_clients[i].k, "state",
                              s.udp_clients[i].addr, t.game.state)
    /\ t.game.state = "waiting" => Resent(s, t)

\* C22: on every scheduler tick the server sends the current snapshot over
\* the unreliable channel to every session with a known return address, and
\* it re-sends the snapshot over each reliable connection on every 3rd tick
\* and on every tick while the world is Waiting.  A reliable connection is
\* that of a joined session the server can write to; every 3rd tick: no
\* TCP_EVERY scheduler ticks in a row pass without the re-send.
C22_BroadcastPolicy ==
    /\ silent < TCP_EVERY
    /\ draining = 0 =>
          \A r \in (IF game.state = "running" THEN TickDraws ELSE {NoDraw}) :
              SendsOf(Cur, tick(Cur, now, r))

----------------------------------------------------------------------------
(* NetworkProtocol: the length-prefixed framing of the reliable channel.   *)
(* A bytes object is a sequence of runs [b |-> byte, n |-> count], no run  *)
(* empty and no two neighbours of the same byte, so that a message of      *)
(* MAX_MESSAGE_SIZE bytes is a short sequence.                             *)

BUFFER_SIZE == 65536
MAX_MESSAGE_SIZE == 65536

Run(b, n) == IF n <= 0 THEN <<>> ELSE <<[b |-> b, n |-> n]>>

\* x + y
BCat(x, y) ==
    IF x = <<>> THEN y
    ELSE IF y = <<>> THEN x
    ELSE IF x[Len(x)].b = y[1].b
    THEN SubSeq(x, 1, Len(x) - 1)
         \o <<[b |-> y[1].b, n |-> x[Len(x)].n + y[1].n]>> \o Tail(y)
    ELSE x \o y

\* len(x)
RECURSIVE BLen(_)
BLen(x) == IF x = <<>> THEN 0 ELSE x[1].n + BLen(Tail(x))

\* x[:k]
RECURSIVE BTake(_, _)
BTake(x, k) ==
    IF k <= 0 \/ x = <<>> THEN <<>>
    ELSE IF x[1].n <= k THEN <<x[1]>> \o BTake(Tail(x), k - x[1].n)
    ELSE <<[b |-> x[1].b, n |-> k]>>

\* x[k:]
RECURSIVE BDrop(_, _)
BDrop(x, k) ==
    IF k <= 0 \/ x = <<>> THEN x
    ELSE IF x[1].n <= k THEN BDrop(Tail(x), k - x[1].n)
    ELSE <<[b |-> x[1].b, n |-> x[1].n - k]>> \o Tail(x)

\* x[i - 1], for 1 <= i <= len(x)
RECURSIVE ByteAt(_, _)
ByteAt(x, i) == IF i <= x[1].n THEN x[1].b ELSE ByteAt(Tail(x), i - x[1].n)

\* bytes(q) for a sequence q of byte values
RECURSIVE Bytes(_)
Bytes(q) == IF q = <<>> THEN <<>> ELSE BCat(Run(Head(q), 1), Bytes(Tail(q)))

\* ord(ch) of the characters the modelled JSON texts are made of
Ord(ch) ==
    CASE ch = "{" -> 123 [] ch = "}" -> 125 [] ch = "a" -> 97
      [] ch = "j" -> 106 [] ch = "i" -> 105 [] ch = "s" -> 115

\* A control message: its type and the number of characters of its string
\* field (name, action).  json.dumps writes it as an opening brace, the
\* letter of the type, the characters of the field and a closing brace;
\* json.loads reads that form and raises JSONDecodeError on anything else.
CodecMsg(type, fill) == [type |-> type, fill |-> fill]
None == CodecMsg("None", 0)
JSONDecodeError == CodecMsg("JSONDecodeError", 0)
TypeLetters == {"j", "i", "s"}
TypeOf(letter) ==
    CASE letter = "j" -> "join" [] letter = "i" -> "input" [] OTHER -> "start"
LetterOf(type) ==
    CASE type = "join" -> "j" [] type = "input" -> "i" [] OTHER -> "s"

json_dumps(message) ==
    BCat(Bytes(<<Ord("{"), Ord(LetterOf(message.type))>>),
         BCat(Run(Ord("a"), message.fill), Run(Ord("}"), 1)))

json_loads(data) ==
    LET n == BLen(data)
        field == BTake(BDrop(data, 2), n - 3)
    IN  IF n < 3 THEN JSONDecodeError
        ELSE IF ByteAt(data, 1) # Ord("{") \/ ByteAt(data, n) # Ord("}")
        THEN JSONDecodeError
        ELSE IF \A l \in TypeLetters : ByteAt(data, 2) # Ord(l)
        THEN JSONDecodeError
        ELSE IF field # Run(Ord("a"), n - 3) THEN JSONDecodeError
        ELSE CodecMsg(TypeOf(CHOOSE l \in TypeLetters :
                                ByteAt(data, 2) = Ord(l)), n - 3)

\* length.to_bytes(4, 'big') and int.from_bytes(b, 'big') for len(b) = 4
to_bytes(length) ==
    Bytes(<<(length \div 16777216) % 256, (length \div 65536) % 256,
            (length \div 256) % 256, length % 256>>)
from_bytes(b) ==
    ByteAt(b, 1) * 16777216 + ByteAt(b, 2) * 65536 + ByteAt(b, 3) * 256
    + ByteAt(b, 4)

encode(message) ==
    LET data == json_dumps(message)
    IN  BCat(to_bytes(BLen(data)), data)

\* decode_from_buffer with >= for the > of line 989
decode_from_buffer_strict(buf) ==
    IF BLen(buf) < 4 THEN [msg |-> None, rest |-> buf]
    ELSE
    LET length == from_bytes(BTake(buf, 4))
    IN  IF length >= MAX_MESSAGE_SIZE
        THEN [msg |-> None, rest |-> BDrop(buf, 4)]
        ELSE IF BLen(buf) < 4 + length THEN [msg |-> None, rest |-> buf]
        ELSE
        LET message == json_loads(BTake(BDrop(buf, 4), length))
        IN  IF message = JSONDecodeError
            THEN [msg |-> None, rest |-> BDrop(buf, 4 + length)]
            ELSE [msg |-> message, rest |-> BDrop(buf, 4 + length)]

\* decode_from_buffer that skips the prefix of an incomplete message, as
\* line 992 does for an oversized one
decode_from_buffer_eager(buf) ==
    IF BLen(buf) < 4 THEN [msg |-> None, rest |-> buf]
    ELSE
    LET length == from_bytes(BTake(buf, 4))
    IN  IF length > MAX_MESSAGE_SIZE
        THEN [msg |-> None, rest |-> BDrop(buf, 4)]
        ELSE IF BLen(buf) < 4 + length
        THEN [msg |-> None, rest |-> BDrop(buf, 4)]
        ELSE
        LET message == json_loads(BTake(BDrop(buf, 4), length))
        IN  IF message = JSONDecodeError
            THEN [msg |-> None, rest |-> BDrop(buf, 4 + length)]
            ELSE [msg |-> message, rest |-> BDrop(buf, 4 + length)]

\* The pair decode_from_buffer returns
decode_from_buffer(buf) ==
    IF BLen(buf) < 4 THEN [msg |-> None, rest |-> buf]
    ELSE
    LET length == from_bytes(BTake(buf, 4))
    IN  IF length > MAX_MESSAGE_SIZE
        THEN [msg |-> None, rest |-> BDrop(buf, 4)]
        ELSE IF BLen(buf) < 4 + length THEN [msg |-> None, rest |-> buf]
        ELSE
        LET message == json_loads(BTake(BDrop(buf, 4), length))
        IN  IF message = JSONDecodeError
            THEN [msg |-> None, rest |-> BDrop(buf, 4 + length)]
            ELSE [msg |-> message, rest |-> BDrop(buf, 4 + length)]

\* The loop of lines 1231-1239 on the buffer buf: the buffer it leaves and
\* the messages it passes to _handle_message, after those of done
RECURSIVE read_messages(_, _)
read_messages(buf, done) ==
    LET d == decode_from_buffer(buf)
    IN  IF d.msg = None THEN [buffer |-> d.rest, handled |-> done]
        ELSE read_messages(d.rest, Append(done, d.msg))

----------------------------------------------------------------------------
(* SpecCodec: one connection.  The peer encodes control messages and       *)
(* writes them; recv returns all the written bytes, BUFFER_SIZE at most,   *)
(* or a piece of any of the sizes RecvSizes: such pieces are explored when *)
(* the buffer is empty and for the last MaxTail bytes in flight.           *)

MaxWrites == 2     \* messages the peer writes
MaxTail == 16      \* bytes in flight that are received in short pieces

\* Control messages: short ones, the longest the codec accepts and one byte
\* more
ControlMsgs ==
    {CodecMsg("start", 0), CodecMsg("input", 2),
     CodecMsg("join", MAX_MESSAGE_SIZE - 3), CodecMsg("join", MAX_MESSAGE_SIZE - 2)}

RecvSizes == {2, 5}

server ==
    <<cfg, clients, udp_clients, pending_inputs, game, now, draining, ev,
      client_message_counts, passed, silent, accepted, clientside>>

\* The peer sends message over its socket
Write(message) ==
    /\ Len(encoded) < MaxWrites
    /\ encoded' = Append(encoded, message)
    /\ inflight' = BCat(inflight, encode(message))
    /\ UNCHANGED <<server, buffer, handled>>

\* Lines 1216-1239 for a recv that returns size bytes
Recv(size) ==
    /\ size > 0
    /\ size <= BLen(inflight)
    /\ size <= BUFFER_SIZE
    /\ LET data == BTake(inflight, size)
           read == read_messages(BCat(buffer, data), handled)
       IN  /\ buffer' = read.buffer
           /\ handled' = read.handled
    /\ inflight' = BDrop(inflight, size)
    /\ UNCHANGED <<server, encoded>>

\* recv returns what is there, up to BUFFER_SIZE
RecvAll == Recv(Min(BLen(inflight), BUFFER_SIZE))

CodecInit == ServerStarted(FALSE)

CodecNext ==
    \/ \E message \in ControlMsgs : Write(message)
    \/ \E size \in RecvSizes :
          /\ buffer = <<>> \/ BLen(inflight) <= MaxTail
          /\ Recv(size)
    \/ RecvAll

SpecCodec == CodecInit /\ [][CodecNext]_vars

----------------------------------------------------------------------------
(* Claims about the codec (SpecCodec) *)

\* The encoding of message is no longer than the codec accepts
Fits(message) == BLen(json_dumps(message)) <= MAX_MESSAGE_SIZE

\* q starts with p
IsPrefix(p, q) == Len(p) <= Len(q) /\ SubSeq(q, 1, Len(p)) = p

\* The encoded messages were handled one at a time in their order, and all
\* of them, leaving no remainder, once every byte has been received
RoundTrip ==
    /\ IsPrefix(handled, encoded)
    /\ inflight = <<>> => handled = encoded /\ buffer = <<>>

\* C23: decoding the reliable-channel encoding of a control message returns
\* an equivalent message and an empty remainder, and decoding a
\* concatenation of encoded messages returns them one at a time in the
\* order they were encoded.
C23_RoundTrip == RoundTrip

\* C23 as amended: the same for control messages whose encoding is no
\* longer than the maximum message size.
C23_RoundTripWithinMaximum ==
    (\A i \in 1..Len(encoded) : Fits(encoded[i])) => RoundTrip

\* Two messages, one of them of the maximum size, written back to back
\* and received
C23_Witness ==
    /\ Len(encoded) = MaxWrites
    /\ \E i \in 1..Len(encoded) :
          BLen(json_dumps(encoded[i])) = MAX_MESSAGE_SIZE
    /\ inflight = <<>>
    /\ handled = encoded

----------------------------------------------------------------------------
(* SpecWire: one connection whose peer writes nothing but frames that      *)
(* declare more than MAX_MESSAGE_SIZE bytes.  The payload of such a frame  *)
(* starts with the encoding of a control message and is filled up to the   *)
(* declared length.                                                        *)

DeclaredLengths == {MAX_MESSAGE_SIZE + 1, 2 * MAX_MESSAGE_SIZE}
SmuggledMsgs == {CodecMsg("start", 0), CodecMsg("input", 2), CodecMsg("join", 5)}

\* The frame: the prefix and length bytes of payload
Oversized(length, message) ==
    BCat(to_bytes(length),
         BCat(encode(message),
              Run(Ord("a"), length - BLen(encode(message)))))

WriteOversized(length, message) ==
    /\ Len(encoded) < MaxWrites
    /\ encoded' = Append(encoded, message)
    /\ inflight' = BCat(inflight, Oversized(length, message))
    /\ UNCHANGED <<server, buffer, handled>>

WireNext ==
    \/ \E length \in DeclaredLengths : \E message \in SmuggledMsgs :
          WriteOversized(length, message)
    \/ \E size \in RecvSizes :
          /\ buffer = <<>> \/ BLen(inflight) <= MaxTail
          /\ Recv(size)
    \/ RecvAll

SpecWire == CodecInit /\ [][WireNext]_vars

----------------------------------------------------------------------------
(* Claims about oversized frames (SpecWire) *)

\* C24: a reliable-channel message declared larger than the maximum message
\* size is never delivered to handler logic: neither the frame itself nor
\* any message parsed out of the bytes of its payload reaches the message
\* handler.
C24_OversizedNeverHandled == handled = <<>>

----------------------------------------------------------------------------
(* Claims about the intents (Spec) *)

\* The heading and the inventory flags of every actor of g
Steering(g) ==
    [i \in 1..Len(g.snakes) |->
        <<g.snakes[i].k, g.snakes[i].direction, g.snakes[i].has_weapon,
          g.snakes[i].has_ghost>>]

\* C25: buffered actor intents are applied only in a tick in which the
\* world is Running: a scheduler tick in Waiting, Countdown or Finished
\* leaves every actor's heading and inventory flags and the list of
\* projectiles unchanged.
C25_IntentsOnlyWhenRunning ==
    (draining = 0 /\ game.state # "running") =>
        \A t \in {tick(Cur, now, NoDraw)} :
            /\ Steering(t.game) = Steering(game)
            /\ t.game.bombs = game.bombs

----------------------------------------------------------------------------
(* SpecQueue: the queue of intents.  Two players join and start the game   *)
(* as in SpecSim; from then on they send inputs, valid or not, for their   *)
(* own actor or for the other one, and the scheduler ticks in every        *)
(* lifecycle state.  accepted lists what was stored since the last tick.   *)

MaxAccepted == 3    \* inputs stored between two ticks
MaxQueueTick == 1   \* ticks of the running game after the opening

\* The actor an input message of session pid names
Target(pid, msg) == IF msg.player_id = 0 THEN pid ELSE msg.player_id

\* Whether _handle_message stores the input msg of session pid, lines
\* 1287-1306
Accepts(s, pid, msg) ==
    /\ Has(s.clients, pid)
    /\ cfg.requires_password => Get(s.clients, pid).authenticated
    /\ msg.action \in VALID_ACTIONS
    /\ Target(pid, msg) = pid \/ Has(s.clients, Target(pid, msg))
    /\ Has(s.game.snakes, Target(pid, msg))

QueueMsgs(id) ==
    IF id = 1
    THEN {Input(0, a) : a \in {"UP", "LEFT", "FIRE", "JUMP"}}
    ELSE {Input(0, "LEFT"), Input(1, "DOWN")}

\* One turn of the loop of lines 1231-1239 for an input message
ReadIntent(id, msg) ==
    /\ Reading(id)
    /\ Len(accepted) < MaxAccepted
    /\ Set(handle_message(Cur, id, msg, TRUE, now, NoDraw))
    /\ accepted' = IF Accepts(Cur, id, msg)
                   THEN Append(accepted, [k |-> Target(id, msg),
                                          action |-> msg.action])
                   ELSE accepted
    /\ UNCHANGED <<cfg, now, draining, client_message_counts, passed, silent,
                   codec, clientside>>

\* A tick of the scheduler, lines 1152-1162
QueueTick(r) ==
    /\ draining = 0
    /\ Set(tick(Cur, now, r))
    /\ accepted' = <<>>
    /\ UNCHANGED <<cfg, now, draining, client_message_counts, passed, silent,
                   codec, clientside>>

QueueInit == ServerStarted(FALSE)

QueueNext ==
    \/ /\ Len(clients) = Len(game.snakes)
       /\ Len(clients) < Cardinality(Ids)
       /\ AcceptConnection(Len(clients) + 1)
    \/ /\ Len(clients) = Len(game.snakes) + 1
       /\ ReadMessageDrawn(Len(clients), GoodJoin(Len(clients)),
                           SimJoinDraw(Len(clients)))
    \/ /\ Len(game.snakes) = Cardinality(Ids)
       /\ game.state = "waiting"
       /\ accepted = <<>>
       /\ ReadMessage(1, Control("start"))
    \/ now < SimStartTime /\ accepted = <<>> /\ AdvanceClock
    \/ /\ Len(game.snakes) = Cardinality(Ids)
       /\ \E id \in Ids : \E msg \in QueueMsgs(id) : ReadIntent(id, msg)
    \/ /\ game.state \in {"waiting", "countdown", "finished"}
       /\ QueueTick(NoDraw)
    \/ /\ game.state = "running"
       /\ game.tick < Len(SimOpening)
       /\ QueueTick(SimOpening[game.tick + 1])
    \/ /\ game.state = "running"
       /\ game.tick >= Len(SimOpening)
       /\ game.tick < Len(SimOpening) + MaxQueueTick
       /\ \E r \in TickDraws : QueueTick(r)

SpecQueue == QueueInit /\ [][QueueNext]_vars

----------------------------------------------------------------------------
(* Claims about the queue of intents (SpecQueue) *)

\* The inputs stored for actor k since the last tick, in order
AcceptedFor(k) == SelectSeq(accepted, LAMBDA e : e.k = k)

\* Actor number i as the tick's _process_inputs must leave it: with its
\* last stored intent applied, and no other
Steered(i) ==
    LET mine == AcceptedFor(game.snakes[i].k)
    IN  IF mine = <<>> THEN game.snakes[i]
        ELSE apply_input(game, game.snakes[i].k, mine[Len(mine)].action,
                         now).snakes[i]

\* The actors whose last stored intent fires a projectile
Firing ==
    {i \in 1..Len(game.snakes) :
        LET mine == AcceptedFor(game.snakes[i].k)
        IN  /\ mine # <<>>
            /\ mine[Len(mine)].action = "FIRE"
            /\ game.snakes[i].alive /\ game.snakes[i].has_weapon}

\* C26: for each actor at most one intent is applied per scheduler tick,
\* namely the last valid one accepted since the previous tick; the queue is
\* empty after the drain, so that an intent accepted after the drain is
\* applied at the next tick and no intent is applied in more than one tick.
C26_LastIntentOncePerTick ==
    draining = 0 =>
        \A t \in {process_inputs(Cur, now)} :
            /\ t.pending_inputs = <<>>
            /\ Len(t.game.snakes) = Len(game.snakes)
            /\ \A i \in 1..Len(game.snakes) : t.game.snakes[i] = Steered(i)
            /\ Len(t.game.bombs) = Len(game.bombs) + Cardinality(Firing)

\* In a running game in which an intent has been applied before (actor 1
\* heads UP), two different intents of actor 1 were stored since the last
\* tick, and one of actor 2
C26_Witness ==
    /\ game.state = "running"
    /\ Get(game.snakes, 1).direction = "UP"
    /\ Len(AcceptedFor(1)) >= 2
    /\ AcceptedFor(1)[1].action # AcceptedFor(1)[Len(AcceptedFor(1))].action
    /\ AcceptedFor(2) # <<>>
    /\ Get(pending_inputs, 1).action = "FIRE"
    /\ Get(game.snakes, 1).has_weapon

----------------------------------------------------------------------------
(* Claims about the messages behind a failed join (SpecGate) *)

\* C27: once a session has been removed by a failed authentication, no
\* message from that session that was already buffered behind the failing
\* join is applied: it adds no actor, does not start or restart the game
\* and queues no input.
C27_NothingBehindFailedJoin ==
    [][draining # 0 =>
          /\ game'.snakes = game.snakes
          /\ game'.state = game.state
          /\ pending_inputs' = pending_inputs]_vars

----------------------------------------------------------------------------
(* SpecDuel: two actors head on in one row.  Player 1 starts on <<10, 10>> *)
(* heading RIGHT and player 2 on <<16, 10>> heading LEFT.  The first tick  *)
(* spawns an explosive on <<12, 10>>, which player 1 picks up in the       *)
(* second; the heads are then two cells apart.  From there the players     *)
(* fire and turn as they like for MaxDuelTick ticks.                       *)

MaxDuelTick == 2    \* ticks of the running game after the opening

DuelJoinDraw(id) ==
    IF id = 1
    THEN [NoDraw EXCEPT !.start = <<10, 10>>, !.dir = "RIGHT",
                        !.food = <<19, 15>>]
    ELSE [NoDraw EXCEPT !.start = <<16, 10>>, !.dir = "LEFT",
                        !.food = <<3, 3>>]
DuelOpening ==
    << SimDraw(<<5, 3>>, <<12, 10>>), SimDraw(<<5, 3>>, <<4, 4>>) >>

DuelNext ==
    \/ /\ Len(clients) = Len(game.snakes)
       /\ Len(clients) < Cardinality(Ids)
       /\ AcceptConnection(Len(clients) + 1)
    \/ /\ Len(clients) = Len(game.snakes) + 1
       /\ ReadMessageDrawn(Len(clients), GoodJoin(Len(clients)),
                           DuelJoinDraw(Len(clients)))
    \/ /\ Len(game.snakes) = Cardinality(Ids)
       /\ game.state = "waiting"
       /\ ReadMessage(1, Control("start"))
    \/ now < SimStartTime /\ AdvanceClock
    \/ /\ game.state = "countdown"
       /\ now = SimStartTime
       /\ TickDrawn(NoDraw)
    \/ /\ game.state = "running"
       /\ game.tick < Len(DuelOpening)
       /\ TickDrawn(DuelOpening[game.tick + 1])
    \/ /\ game.state = "running"
       /\ game.tick >= Len(DuelOpening)
       /\ \/ \E a \in {"FIRE", "UP"} : ReadMessage(1, Input(0, a))
          \/ \E a \in {"UP", "DOWN"} : ReadMessage(2, Input(0, a))
          \/ TickUpTo(Len(DuelOpening) + MaxDuelTick)

SpecDuel == SimInit /\ [][DuelNext]_vars

----------------------------------------------------------------------------
(* Claims about the order of the steps of a tick (SpecDuel) *)

\* In the tick that starts now a projectile kills actor number o, and actor
\* number i, alive after the projectiles, has landed with its head on a
\* segment of o and on nothing else that kills
LandsOnStruck(i, o) ==
    \A gb \in {BeforeBombs} : \A g \in {update_bombs(gb)} :
        /\ i # o
        /\ gb.snakes[o].alive /\ ~g.snakes[o].alive
        /\ gb.snakes[i].alive /\ g.snakes[i].alive
        /\ HeadOn(gb, i, o)
        /\ ~OwnCollision(g, i)
        /\ \A t \in 1..Len(g.snakes) :
              \/ t \in {i, o}
              \/ ~g.snakes[t].alive
              \/ g.snakes[t].is_invisible
              \/ ~HeadOn(g, i, t)

\* C28: within one Running tick projectile strikes are resolved before
\* actor-versus-actor collisions: an actor killed by a projectile in a tick
\* is not a collision hazard in that same tick, so another actor whose head
\* lands on its segments in that tick survives.
C28_StrikesBeforeCollisions ==
    [][RunningTick =>
        \A i \in 1..Len(game.snakes) : \A o \in 1..Len(game.snakes) :
            LandsOnStruck(i, o) => game'.snakes[i].alive]_vars

\* Player 1 fired at player 2 two cells ahead: the tick killed player 2 with
\* the projectile, which left one segment of it, and player 1 is alive with
\* its head on that segment
C28_Witness ==
    /\ Len(game.snakes) = Cardinality(Ids)
    /\ game.snakes[1].alive
    /\ ~game.snakes[2].alive
    /\ game.snakes[2].body = <<game.snakes[1].body[1]>>
    /\ \E j \in 1..Len(game.explosions) :
          game.explosions[j].ttl = EXPLOSION_TTL - 1

----------------------------------------------------------------------------
(* SpecDropFair: SpecDrop with a scheduler that goes on ticking, as the    *)
(* loop of _run_loop does until the process is stopped.                    *)

SpecDropFair == SpecDrop /\ WF_vars(SchedulerTick)

----------------------------------------------------------------------------
(* Claims about the end of the game on the reliable channel (SpecDropFair) *)

\* The session of id has joined and its connection is open
JoinedOpen(id) ==
    Has(clients, id) /\ Get(clients, id).joined
    /\ Get(clients, id).conn = "open"

\* The last step sent id a snapshot of the Finished world over TCP
SentFinished(id) ==
    \E j \in 1..Len(ev) :
        ev[j] = Event("tcp", id, "state", NoAddr, "finished")

\* C29: once the world becomes Finished, a snapshot whose state is Finished
\* is eventually sent over the reliable connection of every joined session
\* that stays connected.
C29_FinishedReachesReliable ==
    \A id \in Ids :
        [](game.state = "finished" /\ JoinedOpen(id)
              => <>(SentFinished(id) \/ ~JoinedOpen(id)))

----------------------------------------------------------------------------
(* Claims about a world without survivors (SpecDrop) *)

\* The server after the step
After ==
    [clients |-> clients', udp_clients |-> udp_clients',
     pending_inputs |-> pending_inputs', game |-> game', ev |-> <<>>]

\* The tick after the step, whatever it draws, leaves the world Finished
NextTickFinishes ==
    \A r \in TickDraws : tick(After, now', r).game.state = "finished"

\* C30: if every actor in the world is dead at the end of a Running tick,
\* the world leaves Running and reaches Finished, with that tick or with
\* the next; this holds also when the world has a single actor.
C30_AllDeadFinishes ==
    [][(RunningTick /\ Len(game'.snakes) >= 1 /\ AliveIn(game') = {})
          => game'.state = "finished" \/ NextTickFinishes]_vars

\* C30 as amended: the same in a world with more than one actor.
C30_AllDeadFinishesAmongSeveral ==
    [][(RunningTick /\ Len(game'.snakes) > 1 /\ AliveIn(game') = {})
          => game'.state = "finished" \/ NextTickFinishes]_vars

\* A world of two actors, both dead, is Finished without a winner
C30_Witness ==
    /\ game.state = "finished"
    /\ Len(game.snakes) > 1
    /\ AliveIn(game) = {}
    /\ game.winner = ""

----------------------------------------------------------------------------
(* Claims about two heads on one cell (SpecDuel) *)

\* In the tick that starts now actors number i and o, both alive and
\* visible when the collisions are resolved, have moved their heads onto
\* the same cell
HeadsMeet(i, o) ==
    \A g \in {BeforeCollisions} :
        /\ i # o
        /\ g.snakes[i].alive /\ g.snakes[o].alive
        /\ ~g.snakes[i].is_invisible /\ ~g.snakes[o].is_invisible
        /\ g.snakes[i].body[1] = g.snakes[o].body[1]
        /\ g.snakes[i].body # game.snakes[i].body
        /\ g.snakes[o].body # game.snakes[o].body

\* C31: when the heads of two alive, visible actors enter the same cell in
\* the same tick, both actors are dead after that tick, whatever the order
\* in which the actors were added to the world.
C31_HeadOnKillsBoth ==
    [][RunningTick =>
        \A i \in 1..Len(game.snakes) : \A o \in 1..Len(game.snakes) :
            HeadsMeet(i, o) =>
                ~game'.snakes[i].alive /\ ~game'.snakes[o].alive]_vars

----------------------------------------------------------------------------
(* Claims about the heading between two moves (SpecQueue) *)

\* C32: between two consecutive moves of an alive actor, and before its
\* first move, its heading is never the exact reverse of the heading it
\* last moved with or was spawned with, however many inputs were applied in
\* Waiting, Countdown or Running: the cell ahead of its head is never its
\* own second segment.
C32_NeverReversedBetweenMoves ==
    \A i \in 1..Len(game.snakes) :
        LET snake == game.snakes[i]
        IN  (snake.alive /\ Len(snake.body) >= 2) =>
               Ahead(game, snake.body, snake.direction) # snake.body[2]

----------------------------------------------------------------------------
(* SpecStrike: _update_bombs on a projectile about to strike.  bob's actor *)
(* lies in row 10 with its head on <<10, 10>> and StrikeLen cells, alive   *)
(* or dead; ann's actor has fired down the column of one of bob's cells    *)
(* a tick ago and the projectile is 1 to 4 cells above that cell.          *)

MaxStrikeBody == 7     \* longest body that is struck

StrikeActor(pid, name, body, d, alive) ==
    [k |-> pid, player_id |-> pid - 1, player_name |-> name, body |-> body,
     direction |-> d, alive |-> alive, has_weapon |-> FALSE,
     has_ghost |-> FALSE, is_invisible |-> FALSE, invisible_until |-> 0,
     score |-> 0]

\* The world _update_bombs is called on: cell number hit of bob's len cells
\* is dist cells below the projectile
StrikeWorld(s, len, hit, dist, alive) ==
    LET x == 10 + hit - 1
        ann == StrikeActor(1, NameOf(1),
                   [j \in 1..3 |-> <<x, 8 - dist - (j - 1)>>], "DOWN", TRUE)
        bob == StrikeActor(2, NameOf(2),
                   [j \in 1..len |-> <<10 + j - 1, 10>>], "LEFT", alive)
        bomb == [x |-> x, y |-> 10 - dist, direction |-> "DOWN",
                 owner_id |-> ann.player_id,
                 remaining_range |-> BOMB_RANGE - BOMB_SPEED]
    IN  [s EXCEPT !.game.state = "running", !.game.snakes = <<ann, bob>>,
                  !.game.next_player_id = 2, !.game.tick = 2,
                  !.game.bombs = <<bomb>>]

StrikeInit ==
    /\ cfg = Config(FALSE, "classic", TRUE)
    /\ \E len \in 1..MaxStrikeBody : \E hit \in 1..len :
       \E dist \in 1..(BOMB_SPEED + 1) : \E alive \in BOOLEAN :
          /\ alive => len >= 2
          /\ \E dl \in DrawDelays :
                Holds(StrikeWorld(NewServer(cfg, dl), len, hit, dist, alive),
                      0)

\* _update_bombs, lines 807-891
UpdateBombs ==
    /\ game.bombs # <<>>
    /\ game' = update_bombs(game)
    /\ UNCHANGED <<cfg, clients, udp_clients, pending_inputs, now, draining,
                   ev, rate>>

StrikeNext == UpdateBombs

SpecStrike == StrikeInit /\ [][StrikeNext]_vars

----------------------------------------------------------------------------
(* Claims about the damage of a strike (SpecStrike) *)

\* The step is a strike of a projectile on cell c of actor number o: the
\* projectile went off on c, a cell of o and of no actor before o
StrikesOn(o, c) ==
    /\ Len(game'.explosions) > Len(game.explosions)
    /\ LET e == game'.explosions[Len(game'.explosions)]
       IN  c = <<e.x, e.y>>
    /\ c \in Range(game.snakes[o].body)
    /\ \A h \in 1..(o - 1) : c \notin Range(game.snakes[h].body)

\* C33: when a projectile strikes segment index i (from 0) of an actor
\* whose body has L cells, exactly min(4, L-i, L-1) cells are removed
\* starting at index i, and the strike marks the actor dead if and only if
\* fewer than 2 cells remain: otherwise its alive flag is left as it was.
C33_StrikeDamage ==
    [][\A o \in 1..Len(game.snakes) :
       \A c \in Range(game.snakes[o].body) :
          StrikesOn(o, c) =>
             LET body == game.snakes[o].body
                 L == Len(body)
                 i == (CHOOSE j \in 1..L :
                          body[j] = c /\ \A h \in 1..(j - 1) : body[h] # c) - 1
                 removed == Min(BOMB_DAMAGE, Min(L - i, L - 1))
                 rest == SubSeq(body, 1, i) \o SubSeq(body, i + removed + 1, L)
             IN  /\ game'.snakes[o].body = rest
                 /\ Len(rest) = L - removed
                 /\ game'.snakes[o].alive =
                       (IF Len(rest) < 2 THEN FALSE ELSE game.snakes[o].alive)
      ]_vars

\* An alive actor of the longest body was struck on its head: the first
\* four cells are gone and it is alive
C33_Witness ==
    /\ game.explosions # <<>>
    /\ Len(game.snakes) = 2
    /\ game.snakes[2].alive
    /\ game.snakes[2].body =
          [j \in 1..(MaxStrikeBody - BOMB_DAMAGE) |->
              <<10 + BOMB_DAMAGE + j - 1, 10>>]

----------------------------------------------------------------------------
(* Claims about the segments of dead actors (SpecArena) *)

\* In world g the head of actor number i is on a cell that holds segments
\* of dead actors only: of one at least, of no alive actor, and not its own
OnDeadOnly(g, i) ==
    /\ \E o \in 1..Len(g.snakes) :
          o # i /\ ~g.snakes[o].alive /\ HeadOn(g, i, o)
    /\ \A o \in 1..Len(g.snakes) :
          (o # i /\ g.snakes[o].alive) => ~HeadOn(g, i, o)
    /\ \A j \in 2..Len(g.snakes[i].body) :
          g.snakes[i].body[j] # g.snakes[i].body[1]

\* C34: an alive actor whose head lands on a cell occupied only by segments
\* of dead actors is not killed by collision resolution, unless that cell
\* is in the wall: the segments of dead actors are never collidable
\* hazards.
C34_DeadSegmentsHarmless ==
    game.state = "running" =>
    \A g \in {BeforeCollisions} : \A h \in {check_collisions(g)} :
        \A i \in 1..Len(g.snakes) :
            ( /\ g.snakes[i].alive
              /\ OnDeadOnly(g, i)
              /\ ~(g.walls_enabled /\ OutOfBounds(g, g.snakes[i].body[1])) )
            => h.snakes[i].alive

\* The connection of player 2 was reset and its session removed, which
\* left its actor dead in its column; player 1 is alive and visible after
\* the fourth tick, which put its head on a segment of that actor
C34_Witness ==
    /\ game.tick = 4
    /\ Len(game.snakes) = Cardinality(Ids)
    /\ ~Has(clients, 2)
    /\ game.snakes[1].alive /\ ~game.snakes[1].is_invisible
    /\ ~game.snakes[2].alive /\ ~game.snakes[2].is_invisible
    /\ game.snakes[1].body[1] \in Range(game.snakes[2].body)
    /\ game.snakes[1].body[2] \notin Range(game.snakes[2].body)

----------------------------------------------------------------------------
(* SpecScreen: players that report the screen they like when they join: no *)
(* screen, a terminal of 8x8, 12x13 or 22x18 characters, a window of       *)
(* 1920x1080 pixels.                                                       *)

Screens == {<<0, 0>>, <<8, 8>>, <<12, 13>>, <<22, 18>>, <<1920, 1080>>}

ScreenJoin(id, screen) ==
    Msg("join", "match", NameOf(id), 9000 + id, screen, 0, "")

ScreenNext ==
    \/ \E id \in Ids : AcceptConnection(id)
    \/ \E id \in Ids : \E screen \in Screens :
          /\ JoinsLeft(ScreenJoin(id, screen), MaxJoins)
          /\ ReadMessage(id, ScreenJoin(id, screen))
    \/ \E id \in Ids : ReadMessage(id, Control("start"))
    \/ \E id \in Ids : ReadEOF(id)
    \/ Tick
    \/ AdvanceClock

SpecScreen == Init /\ [][ScreenNext]_vars

----------------------------------------------------------------------------
(* Claims about the join past the gate (SpecScreen) *)

\* C35: a join that passes the gate (correct password if required, world
\* Waiting, fewer than 10 actors), sent by a session that has no actor yet,
\* always adds exactly one alive actor for the sending session and sends it
\* a welcome reply, whatever screen dimensions the join message reports.
C35_GatedJoinAddsActor ==
    \A id \in Ids : \A screen \in Screens : \A r \in JoinDraws :
        ( /\ draining = 0
          /\ Reading(id)
          /\ ~Has(game.snakes, id)
          /\ game.state = "waiting"
          /\ Len(game.snakes) < MAX_PLAYERS )
        => \A s \in {handle_message(Cur, id, ScreenJoin(id, screen), TRUE,
                                    now, r)} :
              /\ Len(s.game.snakes) = Len(game.snakes) + 1
              /\ Has(s.game.snakes, id)
              /\ Get(s.game.snakes, id).alive
              /\ \E j \in 1..Len(s.ev) :
                    s.ev[j] = Event("tcp", id, "welcome", NoAddr, "")

----------------------------------------------------------------------------
(* Claims about the restart (Spec) *)

\* C36: a restart keeps the server's configuration: the world it leaves
\* has the same mode, wall setting, speed class, width and height as the
\* Finished world it replaced.
C36_RestartKeepsConfiguration ==
    [][(game.state = "finished" /\ game'.state # "finished") =>
          /\ game'.mode = game.mode
          /\ game'.walls_enabled = game.walls_enabled
          /\ game'.speed = game.speed
          /\ game'.width = game.width
          /\ game'.height = game.height]_vars

----------------------------------------------------------------------------
(* SpecSpawn: the game of SpecSim in which player 2 goes on eating.  After *)
(* two ticks of the opening player 1 holds the bomb and the next food lies *)
(* ahead of player 2.  Player 1 fires when it likes; the food that is      *)
(* spawned when player 2 eats is drawn ahead of player 2 again or on a     *)
(* cell of the row of player 1, where the projectile flies.                *)

MaxSpawnTick == 2      \* ticks explored after the opening

SpawnOpening == SubSeq(SimOpening, 1, 2)
SpawnFoods == {<<19, 12>>, <<16, 10>>}
SpawnDraws == {[NoDraw EXCEPT !.food = f] : f \in SpawnFoods}

SpawnNext ==
    \/ /\ Len(clients) = Len(game.snakes)
       /\ Len(clients) < Cardinality(Ids)
       /\ AcceptConnection(Len(clients) + 1)
    \/ /\ Len(clients) = Len(game.snakes) + 1
       /\ ReadMessageDrawn(Len(clients), GoodJoin(Len(clients)),
                           SimJoinDraw(Len(clients)))
    \/ /\ Len(game.snakes) = Cardinality(Ids)
       /\ game.state = "waiting"
       /\ ReadMessage(1, Control("start"))
    \/ now < SimStartTime /\ AdvanceClock
    \/ /\ game.state = "countdown"
       /\ now = SimStartTime
       /\ TickDrawn(NoDraw)
    \/ /\ game.state = "running"
       /\ game.tick < Len(SpawnOpening)
       /\ TickDrawn(SpawnOpening[game.tick + 1])
    \/ /\ game.state = "running"
       /\ game.tick >= Len(SpawnOpening)
       /\ \/ ReadMessage(1, Input(0, "FIRE"))
          \/ /\ game.tick < Len(SpawnOpening) + MaxSpawnTick
             /\ \E r \in SpawnDraws : TickDrawn(r)

SpecSpawn == SimInit /\ [][SpawnNext]_vars

----------------------------------------------------------------------------
(* Claims about the cell of a spawned consumable (SpecSpawn) *)

\* The cells of the projectiles in flight while the actors move in the tick
\* that starts now: _process_inputs has fired, _update_bombs has not run
InFlight ==
    LET bombs == process_inputs(Cur, now).game.bombs
    IN  {<<bombs[j].x, bombs[j].y>> : j \in 1..Len(bombs)}

\* The cells that hold a segment of an actor all through the step
Segments ==
    UNION {Range(game.snakes[i].body) \cap Range(game'.snakes[i].body) :
              i \in 1..Len(game.snakes)}

\* The cells that hold a pickup all through the step
Pickups ==
    (Range(game.weapons) \cap Range(game'.weapons))
        \cup (Range(game.ghost_pickups) \cap Range(game'.ghost_pickups))

\* C37: whenever a consumable is spawned, the cell it is placed on holds no
\* actor segment, no other consumable and no in-flight projectile at that
\* moment; here for the food that is spawned when an actor eats in a tick.
C37_SpawnCellFree ==
    [][(RunningTick /\ Len(game'.snakes) = Len(game.snakes)) =>
        \A c \in Range(game'.foods) \ Range(game.foods) :
            /\ c \notin Segments
            /\ c \notin Pickups
            /\ c \notin InFlight]_vars

----------------------------------------------------------------------------
(* SpecGarble: one connection whose peer writes control messages and       *)
(* frames that declare a length in range and hold bytes json.loads does    *)
(* not read.  encoded records such a frame as JSONDecodeError.             *)

GarbledLengths == {0, 3}
GarbleMsgs == {CodecMsg("start", 0), CodecMsg("input", 2)}

\* A frame of length bytes that are no JSON text
Garbled(length) == BCat(to_bytes(length), Run(Ord("a"), length))

WriteGarbled(length) ==
    /\ Len(encoded) < MaxWrites
    /\ encoded' = Append(encoded, JSONDecodeError)
    /\ inflight' = BCat(inflight, Garbled(length))
    /\ UNCHANGED <<server, buffer, handled>>

\* The server has accepted the connection
GarbleInit ==
    /\ cfg = Config(FALSE, "classic", TRUE)
    /\ \E dl \in DrawDelays :
          Holds(accept_connection(NewServer(cfg, dl), 1), 0)

GarbleNext ==
    \/ \E message \in GarbleMsgs : Write(message)
    \/ \E length \in GarbledLengths : WriteGarbled(length)
    \/ \E size \in RecvSizes : Recv(size)
    \/ RecvAll

SpecGarble == GarbleInit /\ [][GarbleNext]_vars

----------------------------------------------------------------------------
(* Claims about the frames behind a dropped frame (SpecGarble) *)

\* The well-formed messages the peer has written, in their order
WellFormed == SelectSeq(encoded, LAMBDA m : m # JSONDecodeError)

\* C38: after a malformed or undecodable frame is dropped, the session
\* stays registered and every complete well-formed frame received behind
\* it is delivered to the handler even if the client sends no further
\* bytes: once every written byte has been received, every well-formed
\* message that was written has been handled.
C38_DeliveredBehindDropped ==
    /\ Has(clients, 1)
    /\ inflight = <<>> => handled = WellFormed

----------------------------------------------------------------------------
(* SpecClient: one GameClient and the server.  The client connects, joins  *)
(* and asks for the start; every snapshot the server sends it is in flight *)
(* until receive_state takes it: datagrams in any order and after any      *)
(* delay, the snapshots of the reliable connection in the order they were  *)
(* written.                                                                *)

MaxClientTick == 2     \* ticks of the running game that are explored
MaxStream == 2         \* snapshots in flight on the reliable connection

\* What a state message carries of the world g: asdict(self.game)
Snapshot(g) == [state |-> g.state, tick |-> g.tick]

\* GameClient.receive_state, lines 1788-1856: udp are the datagrams
\* recvfrom returns, in order, and tcp the state messages decoded from the
\* bytes recv returns; the value is self.game after the call
RECURSIVE receive_state(_, _, _)
receive_state(held, udp, tcp) ==
    IF udp # <<>> THEN receive_state(Head(udp), Tail(udp), tcp)
    ELSE IF tcp # <<>> THEN receive_state(Head(tcp), udp, Tail(tcp))
    ELSE held

\* The server goes from Cur to s and what it sent to the client is in flight
ServesClient(s) ==
    /\ Set(s)
    /\ datagrams' =
          IF \E j \in 1..Len(s.ev) : s.ev[j].e = "udp" /\ s.ev[j].id = 1
          THEN datagrams \cup {Snapshot(s.game)} ELSE datagrams
    /\ stream' =
          IF \E j \in 1..Len(s.ev) :
                s.ev[j].e = "tcp" /\ s.ev[j].id = 1 /\ s.ev[j].what = "state"
          THEN Append(stream, Snapshot(s.game)) ELSE stream
    /\ UNCHANGED <<cfg, now, draining, client_message_counts, passed, silent,
                   codec, accepted, client_game>>

\* GameClient.connect and _accept_connections
ClientConnects ==
    /\ clients = <<>>
    /\ ServesClient(accept_connection(Cur, 1))

\* The join, the start and the inputs of the client reach _handle_message
ClientSends(msg) ==
    /\ Reading(1)
    /\ draining = 0
    /\ Len(stream) < MaxStream
    /\ msg.type = "join" => ~Get(clients, 1).joined
    /\ msg.type = "start" => game.state = "waiting" /\ Get(clients, 1).joined
    /\ ServesClient(handle_message(Cur, 1, msg, TRUE, now,
          IF msg.type = "join" THEN SimJoinDraw(1) ELSE NoDraw))

\* A tick of the scheduler, lines 1152-1162
ClientTick ==
    /\ draining = 0
    /\ Len(stream) < MaxStream
    /\ game.state = "running" => game.tick < MaxClientTick
    /\ \E r \in (IF game.state = "running" THEN TickDraws ELSE {NoDraw}) :
          ServesClient(tick(Cur, now, r))

\* One call of receive_state: the datagrams of got have arrived, in the
\* order of udp, and the first k snapshots of the stream
ReceiveState ==
    \E got \in SUBSET datagrams : \E k \in 0..Len(stream) :
    \E udp \in [1..Cardinality(got) -> got] :
        /\ got # {} \/ k > 0
        /\ \A i, j \in 1..Cardinality(got) : udp[i] = udp[j] => i = j
        /\ client_game' = receive_state(client_game, udp, SubSeq(stream, 1, k))
        /\ datagrams' = datagrams \ got
        /\ stream' = SubSeq(stream, k + 1, Len(stream))
        /\ ev' = <<>>
        /\ UNCHANGED <<cfg, clients, udp_clients, pending_inputs, game, now,
                       draining, client_message_counts, passed, silent, codec,
                       accepted>>

ClientInit == ServerStarted(FALSE)

ClientNext ==
    \/ ClientConnects
    \/ \E msg \in {GoodJoin(1), Control("start"), Input(0, "UP")} :
          ClientSends(msg)
    \/ ClientTick
    \/ AdvanceClock
    \/ ReceiveState

SpecClient == ClientInit /\ [][ClientNext]_vars

----------------------------------------------------------------------------
(* Claims about the snapshot the client holds (SpecClient) *)

\* C39: within one game, the tick counter of the world snapshot held by a
\* client never decreases across successive receive_state calls, whatever
\* the order and delay with which unreliable datagrams and reliable
\* fallback snapshots arrive.
C39_HeldTickNeverDecreases ==
    [][(client_game # NoGame /\ client_game' # NoGame) =>
          client_game'.tick >= client_game.tick]_vars

----------------------------------------------------------------------------
(* Claims about incomplete messages (SpecCodec) *)

\* buf holds fewer than 4 bytes, or fewer bytes than the in-range length it
\* declares plus the 4 bytes of the prefix
Incomplete(buf) ==
    \/ BLen(buf) < 4
    \/ /\ from_bytes(BTake(buf, 4)) <= MAX_MESSAGE_SIZE
       /\ BLen(buf) < 4 + from_bytes(BTake(buf, 4))

\* The buffer the step decodes: recv has returned the bytes that left
\* inflight and they were appended to client['buffer']
Received == BCat(buffer, BTake(inflight, BLen(inflight) - BLen(inflight')))

\* C40: decoding a reliable buffer that holds fewer than 4 bytes, or fewer
\* bytes than its declared in-range length plus the 4-byte prefix, returns
\* no message and the buffer unchanged: a recv that leaves the buffer
\* incomplete passes nothing to the handler and keeps every byte.
C40_IncompleteKept ==
    [][(encoded' = encoded /\ inflight' # inflight /\ Incomplete(Received))
          => /\ decode_from_buffer(Received) =
                   [msg |-> None, rest |-> Received]
             /\ buffer' = Received
             /\ handled' = handled]_vars

\* The buffer holds the prefix of a message and a part of its body, and
\* nothing of it was handled
C40_Witness ==
    /\ BLen(buffer) > 4
    /\ from_bytes(BTake(buffer, 4)) <= MAX_MESSAGE_SIZE
    /\ BLen(buffer) < 4 + from_bytes(BTake(buffer, 4))
    /\ handled = <<>>
    /\ Len(encoded) >= 1

====
